---- MODULE Spec2Model ----
(***************************************************************************)
(* ContactSphere: the relationship inference engine                        *)
(* (backend/relationship_inference.py) as a state machine.                 *)
(*                                                                         *)
(* Python strings are sequences of one-character strings, so that strip(), *)
(* lower(), split('@'), replace() and the substring test are computed.     *)
(* An Optional[str] is <<>> (None) or <<s>> (the string s).                *)
(* A dict is a sequence of [key, members] entries in insertion order.      *)
(* A group's members are references to the contacts: their positions in    *)
(* the list given to the call.                                             *)
(* strength is given in tenths (9 is 0.9).                                 *)
(***************************************************************************)
EXTENDS Integers, Sequences, FiniteSets, TLC

\* one caller and its engine: the list given, the list returned
VARIABLES contacts, engine, edges, prev_edges, outcome, calls

\* invocations in progress at the same time: position, argument, locals
VARIABLES pc, args, frames, result, overlap

\* the graph database and the syncs of the services on it: the content of the
\* database, the edge list the last _infer_relationships computed, how the
\* last sync ended, the number of syncs so far, and the calls the last sync
\* made on the database and the engine, in the order of the calls (the engine
\* is listed when it returned)
VARIABLES db, inferred, sync_outcome, syncs, db_calls

callVars == <<contacts, engine, edges, prev_edges, outcome, calls>>

runVars == <<pc, args, frames, result, overlap>>

syncVars == <<db, inferred, sync_outcome, syncs, db_calls>>

\* what the calls of a single caller leave alone
restVars == <<runVars, syncVars>>

vars == <<callVars, restVars>>

----------------------------------------------------------------------------
(* Bounds of the model *)

MaxContacts == 3

MaxCalls == 2

MaxInvocations == 2

\* the syncs of one run of the model
MaxSyncs == 2

----------------------------------------------------------------------------
(* Python str and list primitives *)

None == <<>>

Some(s) == <<s>>

Truthy(opt) == opt # None /\ opt[1] # <<>>

\* Strings are over the characters of ISO 8859-1 (Latin-1, U+0000..U+00FF).

\* the characters str.lower() changes: UpperChars[i] becomes LowerChars[i]
UpperChars ==
    << "A", "B", "C", "D", "E", "F", "G", "H", "I", "J", "K", "L", "M", "N", "O", "P",
       "Q", "R", "S", "T", "U", "V", "W", "X", "Y", "Z", "À", "Á", "Â", "Ã", "Ä", "Å",
       "Æ", "Ç", "È", "É", "Ê", "Ë", "Ì", "Í", "Î", "Ï", "Ð", "Ñ", "Ò", "Ó", "Ô", "Õ",
       "Ö", "Ø", "Ù", "Ú", "Û", "Ü", "Ý", "Þ" >>

LowerChars ==
    << "a", "b", "c", "d", "e", "f", "g", "h", "i", "j", "k", "l", "m", "n", "o", "p",
       "q", "r", "s", "t", "u", "v", "w", "x", "y", "z", "à", "á", "â", "ã", "ä", "å",
       "æ", "ç", "è", "é", "ê", "ë", "ì", "í", "î", "ï", "ð", "ñ", "ò", "ó", "ô", "õ",
       "ö", "ø", "ù", "ú", "û", "ü", "ý", "þ" >>

LowerOf ==
    [ch \in {UpperChars[i] : i \in DOMAIN UpperChars} |->
        LowerChars[CHOOSE i \in DOMAIN UpperChars : UpperChars[i] = ch]]

UpperSet == DOMAIN LowerOf

LowerChar(ch) == IF ch \in UpperSet THEN LowerOf[ch] ELSE ch

\* str.lower()
lower(s) == [i \in 1..Len(s) |-> LowerChar(s[i])]

\* the characters str.strip() removes from both ends: tab, line feed,
\* vertical tab, form feed, carriage return, the separators U+001C..U+001F,
\* the space, next line (U+0085) and the no-break space (U+00A0)
Whitespace ==
    { "\t", "\n", "", "\f", "\r", "", "", "", "", " ", "", " " }

strip(s) ==
    LET keep == {i \in 1..Len(s) : s[i] \notin Whitespace}
    IN  IF keep = {} THEN <<>>
        ELSE LET a == CHOOSE i \in keep : \A j \in keep : i <= j
                 b == CHOOSE i \in keep : \A j \in keep : j <= i
             IN  SubSeq(s, a, b)

Contains(s, p) ==
    \E i \in 0..(Len(s) - Len(p)) : SubSeq(s, i + 1, i + Len(p)) = p

\* s.split('@'): the pieces of s between the '@' characters
SplitAt(s) ==
    LET ats  == {i \in 1..Len(s) : s[i] = "@"}
        cuts == ats \cup {0, Len(s) + 1}
        nxt(i) == CHOOSE j \in cuts : j > i /\ \A k \in cuts : k > i => j <= k
        starts == {i \in cuts : i <= Len(s)}
        rank(i) == Cardinality({j \in starts : j < i}) + 1
    IN  [n \in 1..Cardinality(starts) |->
            LET i == CHOOSE c \in starts : rank(c) = n
            IN  SubSeq(s, i + 1, nxt(i) - 1)]

RECURSIVE FlattenRange(_, _, _)
FlattenRange(ss, lo, hi) ==
    IF lo > hi THEN <<>>
    ELSE IF lo = hi THEN ss[lo]
    ELSE LET mid == (lo + hi) \div 2
         IN  FlattenRange(ss, lo, mid) \o FlattenRange(ss, mid + 1, hi)

\* the concatenation of the lists of ss, in order (nested loops that append)
Flatten(ss) == FlattenRange(ss, 1, Len(ss))

Range(s) == {s[i] : i \in DOMAIN s}

----------------------------------------------------------------------------
(* RelationshipInference: attribute extraction *)

\* the set literal of _is_meaningful_domain
consumer_domains ==
    { <<"g","m","a","i","l",".","c","o","m">>,
      <<"y","a","h","o","o",".","c","o","m">>,
      <<"h","o","t","m","a","i","l",".","c","o","m">>,
      <<"o","u","t","l","o","o","k",".","c","o","m">>,
      <<"a","o","l",".","c","o","m">>,
      <<"i","c","l","o","u","d",".","c","o","m">>,
      <<"m","e",".","c","o","m">>,
      <<"l","i","v","e",".","c","o","m">>,
      <<"m","s","n",".","c","o","m">>,
      <<"w","e","b",".","d","e">>,
      <<"g","m","x",".","c","o","m">>,
      <<"g","m","x",".","d","e">>,
      <<"y","a","n","d","e","x",".","c","o","m">>,
      <<"m","a","i","l",".","r","u">>,
      <<"t","-","o","n","l","i","n","e",".","d","e">> }

\* a slip: a domain that ends with a consumer domain counts as one
_is_meaningful_domain_BySuffix(domain) ==
    ~\E d \in consumer_domains :
        Len(d) <= Len(domain) /\ SubSeq(domain, Len(domain) - Len(d) + 1, Len(domain)) = d

\* a slip: every domain counts as meaningful
_is_meaningful_domain_Any(domain) == TRUE

_is_meaningful_domain(domain) == domain \notin consumer_domains

\* Optional[str]: the piece after the first '@', lower-cased and stripped
_extract_domain(email) ==
    IF "@" \in Range(email)
    THEN Some(strip(lower(SplitAt(email)[2])))
    ELSE None

school_keywords ==
    << <<"u","n","i","v","e","r","s","i","t","y">>,
       <<"c","o","l","l","e","g","e">>,
       <<"s","c","h","o","o","l">>,
       <<"i","n","s","t","i","t","u","t","e">>,
       <<"a","c","a","d","e","m","y">> >>

\* the list literal as Python reads it: 'berkeley' 'oxford', with no comma
\* between them, is the one string 'berkeleyoxford'
known_schools ==
    << <<"m","i","t">>,
       <<"s","t","a","n","f","o","r","d">>,
       <<"h","a","r","v","a","r","d">>,
       <<"c","a","l","t","e","c","h">>,
       <<"u","c","l","a">>,
       <<"u","s","c">>,
       <<"b","e","r","k","e","l","e","y","o","x","f","o","r","d">>,
       <<"c","a","m","b","r","i","d","g","e">>,
       <<"y","a","l","e">>,
       <<"p","r","i","n","c","e","t","o","n">>,
       <<"c","o","l","u","m","b","i","a">>,
       <<"c","o","r","n","e","l","l">> >>

\* the school-typed entries of raw_data['organizations'] that have a name
RawSchoolNames(contact) ==
    LET orgs == IF contact.raw_data.organizations.kind = "list"
                THEN contact.raw_data.organizations.items
                ELSE <<>>
        hit  == SelectSeq(orgs, LAMBDA org :
                    org.type = Some(<<"s","c","h","o","o","l">>) /\ Truthy(org.name))
    IN  {lower(strip(hit[i].name[1])) : i \in DOMAIN hit}

_extract_schools(contact) ==
    LET org_lower == lower(contact.organization[1])
        from_org ==
            IF /\ Truthy(contact.organization)
               /\ \/ \E k \in DOMAIN school_keywords : Contains(org_lower, school_keywords[k])
                  \/ \E k \in DOMAIN known_schools : Contains(org_lower, known_schools[k])
            THEN {lower(strip(contact.organization[1]))}
            ELSE {}
    IN  from_org \cup RawSchoolNames(contact)

\* iterating raw_data['organizations'] when the key holds null is a TypeError
ExtractSchoolsRaises(contact) == contact.raw_data.organizations.kind = "null"

----------------------------------------------------------------------------
(* RelationshipInference: grouping *)

\* The dict a grouping loop builds from the (key, contact) pairs it meets, in
\* loop order: a key enters the dict when first met, a contact is appended
\* to its key's list each time, and only lists longer than 1 are returned.
BuildGroups(pairs) ==
    LET keys == {pairs[i].key : i \in DOMAIN pairs}
        first == [k \in keys |->
                    LET at == {i \in DOMAIN pairs : pairs[i].key = k}
                    IN  CHOOSE i \in at : \A j \in at : i <= j]
        numbered == [i \in DOMAIN pairs |-> [i |-> i, key |-> pairs[i].key]]
        inserted == SelectSeq(numbered, LAMBDA e : first[e.key] = e.i)
        groups == [n \in DOMAIN inserted |->
                    LET of == SelectSeq(pairs, LAMBDA e : e.key = inserted[n].key)
                    IN  [key |-> inserted[n].key,
                         members |-> [m \in DOMAIN of |-> of[m].ref]]]
    IN  SelectSeq(groups, LAMBDA g : Len(g.members) > 1)

_group_by_tags(cs) ==
    BuildGroups(Flatten([i \in DOMAIN cs |->
        [t \in DOMAIN cs[i].tags |-> [key |-> cs[i].tags[t], ref |-> i]]]))

_group_by_attribute(cs, attr) ==
    BuildGroups(Flatten([i \in DOMAIN cs |->
        LET value == cs[i][attr]
            prev  == cs[i].previous_organization
        IN  (IF Truthy(value) /\ strip(value[1]) # <<>>
             THEN <<[key |-> lower(strip(value[1])), ref |-> i]>>
             ELSE <<>>)
            \o
            (IF attr = "organization" /\ Truthy(prev) /\ strip(prev[1]) # <<>>
             THEN <<[key |-> lower(strip(prev[1])), ref |-> i]>>
             ELSE <<>>)]))

_group_by_email_domain(cs) ==
    BuildGroups(Flatten([i \in DOMAIN cs |->
        IF Truthy(cs[i].email)
        THEN LET domain == _extract_domain(cs[i].email[1])
             IN  IF Truthy(domain) /\ _is_meaningful_domain(domain[1])
                 THEN <<[key |-> domain[1], ref |-> i]>>
                 ELSE <<>>
        ELSE <<>>]))

_group_by_birthday(cs) ==
    BuildGroups(Flatten([i \in DOMAIN cs |->
        IF Truthy(cs[i].birthday)
        THEN <<[key |-> cs[i].birthday[1], ref |-> i]>>
        ELSE <<>>]))

\* ords[i] is the order in which the loop meets the set _extract_schools
\* returns for contact i (a Python set of str has no fixed iteration order)
_group_by_schools(cs, ords) ==
    BuildGroups(Flatten([i \in DOMAIN cs |->
        [k \in DOMAIN ords[i] |-> [key |-> ords[i][k], ref |-> i]]]))

\* the enumerations of a finite set
Enumerations(S) ==
    {q \in [1..Cardinality(S) -> S] : \A a, b \in DOMAIN q : q[a] = q[b] => a = b}

RECURSIVE OrdersRange(_, _, _)
OrdersRange(cs, lo, hi) ==
    IF lo > hi THEN {<<>>}
    ELSE IF lo = hi THEN {<<q>> : q \in Enumerations(_extract_schools(cs[lo]))}
    ELSE LET mid == (lo + hi) \div 2
         IN  {a \o b : a \in OrdersRange(cs, lo, mid), b \in OrdersRange(cs, mid + 1, hi)}

\* every way the sets of schools of the contacts can be iterated
SchoolOrders(cs) == OrdersRange(cs, 1, Len(cs))

----------------------------------------------------------------------------
(* RelationshipInference: edges *)

\* models.ContactEdge: id is None unless given, and the engine gives none
ContactEdge(source_id, target_id, relationship_type, strength, metadata) ==
    [id |-> None, source_id |-> source_id, target_id |-> target_id,
     relationship_type |-> relationship_type, strength |-> strength,
     metadata |-> metadata]

\* for i, contact1 in enumerate(contacts): for contact2 in contacts[i+1:]
Pairs(members) ==
    LET n == Len(members)
        all == [k \in 1..(n * n) |-> <<((k - 1) \div n) + 1, ((k - 1) % n) + 1>>]
        up  == SelectSeq(all, LAMBDA p : p[1] < p[2])
    IN  [k \in DOMAIN up |-> <<members[up[k][1]], members[up[k][2]]>>]

\* a slip: the spaces are removed like the periods and commas
OrgId_SpacesDropped(company) ==
    <<"o","r","g","_">> \o SelectSeq(lower(company), LAMBDA ch : ch \notin {" ", ".", ","})

\* str.replace(' ', '_').replace('.', '').replace(',', '') on company.lower()
OrgId(company) ==
    LET low  == lower(company)
        und  == [i \in DOMAIN low |-> IF low[i] = " " THEN "_" ELSE low[i]]
    IN  <<"o","r","g","_">> \o SelectSeq(und, LAMBDA ch : ch \notin {".", ","})

\* a slip: the test for very large companies is left out
CompanyEdges_NoSkip(cs, g) ==
    LET company == g.key
        company_size == Len(g.members)
    IN  IF company_size <= 10
        THEN LET ps == Pairs(g.members)
             IN  [k \in DOMAIN ps |->
                    ContactEdge(cs[ps[k][1]].id, cs[ps[k][2]].id, "CLOSE_COLLEAGUES", 9,
                        [organization |-> company, company_size |-> company_size])]
        ELSE [m \in DOMAIN g.members |->
                ContactEdge(cs[g.members[m]].id, OrgId(company), "WORKS_AT", 7,
                    [organization |-> company, company_size |-> company_size,
                     is_hub_connection |-> TRUE])]

\* a slip: the size classes follow the configured thresholds, with the type
\* and strengths test_company_size_relationships expects
CompanyEdges_ByThresholds(cs, g) ==
    LET company == g.key
        company_size == Len(g.members)
    IN  IF company_size > 200 THEN <<>>
        ELSE IF company_size <= engine.small_company_threshold
        THEN LET ps == Pairs(g.members)
             IN  [k \in DOMAIN ps |->
                    ContactEdge(cs[ps[k][1]].id, cs[ps[k][2]].id, "CLOSE_COLLEAGUES", 9,
                        [organization |-> company, company_size |-> company_size])]
        ELSE [m \in DOMAIN g.members |->
                ContactEdge(cs[g.members[m]].id, OrgId(company),
                    IF company_size <= engine.medium_company_threshold
                    THEN "COWORKERS" ELSE "WORKS_AT",
                    IF company_size <= engine.medium_company_threshold THEN 7 ELSE 4,
                    [organization |-> company, company_size |-> company_size,
                     is_hub_connection |-> TRUE])]

CompanyEdges(cs, g) ==
    LET company == g.key
        company_size == Len(g.members)
    IN  IF company_size > 200 THEN <<>>
        ELSE IF company_size <= 10
        THEN LET ps == Pairs(g.members)
             IN  [k \in DOMAIN ps |->
                    ContactEdge(cs[ps[k][1]].id, cs[ps[k][2]].id, "CLOSE_COLLEAGUES", 9,
                        [organization |-> company, company_size |-> company_size])]
        ELSE [m \in DOMAIN g.members |->
                ContactEdge(cs[g.members[m]].id, OrgId(company), "WORKS_AT", 7,
                    [organization |-> company, company_size |-> company_size,
                     is_hub_connection |-> TRUE])]

_create_company_relationships(cs, org_groups) ==
    Flatten([n \in DOMAIN org_groups |-> CompanyEdges(cs, org_groups[n])])

_create_location_relationships(cs, city_groups) ==
    Flatten([n \in DOMAIN city_groups |->
        LET g == city_groups[n]
            ps == Pairs(g.members)
        IN  IF Len(g.members) > 50 THEN <<>>
            ELSE [k \in DOMAIN ps |->
                    ContactEdge(cs[ps[k][1]].id, cs[ps[k][2]].id, "LIVES_IN", 3,
                        [city |-> g.key])]])

_create_edges_from_groups(cs, groups, relationship_type, strength) ==
    Flatten([n \in DOMAIN groups |->
        LET g == groups[n]
            ps == Pairs(g.members)
        IN  IF Len(g.members) > 30 THEN <<>>
            ELSE [k \in DOMAIN ps |->
                    ContactEdge(cs[ps[k][1]].id, cs[ps[k][2]].id, relationship_type, strength,
                        [shared_attribute |-> g.key])]])

infer_all_relationships(cs, ords) ==
    LET org_groups      == _group_by_attribute(cs, "organization")
        city_groups     == _group_by_attribute(cs, "city")
        domain_groups   == _group_by_email_domain(cs)
        birthday_groups == _group_by_birthday(cs)
        school_groups   == _group_by_schools(cs, ords)
        tag_groups      == _group_by_tags(cs)
    IN  _create_company_relationships(cs, org_groups)
        \o _create_location_relationships(cs, city_groups)
        \o _create_edges_from_groups(cs, domain_groups, "WORKS_WITH", 7)
        \o _create_edges_from_groups(cs, birthday_groups, "SHARES_BIRTHDAY", 3)
        \o _create_edges_from_groups(cs, school_groups, "ALUMNI_OF", 6)
        \o _create_edges_from_groups(cs, tag_groups, "SHARED_TAG", 6)

\* the call raises when a grouping function raises
InferRaises(cs) == \E i \in DOMAIN cs : ExtractSchoolsRaises(cs[i])

----------------------------------------------------------------------------
(* The strings the inputs are built from *)

sAcme == <<"A","c","m","e">>

sAcmePadded == <<" ","A","C","M","E"," ">>

sAcmeLower == <<"a","c","m","e">>

sOther == <<"O","t","h","e","r">>

sBlank == <<" "," ">>

sRome == <<"R","o","m","e">>

sRomePadded == <<" ","r","o","m","e">>

sOslo == <<"O","s","l","o">>

sMailX1 == <<"a","@","x",".","i","o">>

sMailX2 == <<"b","@","X",".","I","O">>

sMailGmail1 == <<"c","@","g","m","a","i","l",".","c","o","m">>

sMailGmail2 == <<"d","@","G","M","A","I","L",".","c","o","m">>

sMailNoAt == <<"n","o","b","o","d","y">>

sMailBlankDomain == <<"a","@"," "," ">>

sMailSub == <<"e","@","s","u","b",".","g","m","a","i","l",".","c","o","m">>

sMailSub2 == <<"f","@","s","u","b",".","g","m","a","i","l",".","c","o","m">>

sMailTwoAt1 == <<"a","@","b","@","x",".","i","o">>

sMailTwoAt2 == <<"c","@","b","@","y",".","i","o">>

sMarch15 == <<"0","3","-","1","5">>

sMarch15Padded == <<" ","0","3","-","1","5">>

sJuly20 == <<"0","7","-","2","0">>

sMIT == <<"M","I","T">>

sBerkeley == <<"B","e","r","k","e","l","e","y">>

sOxford == <<"O","x","f","o","r","d">>

sYale == <<"Y","A","L","E">>

sSummit == <<"S","u","m","m","i","t">>

sMitPadded == <<"m","i","t"," ">>

sStanfordUniversity == <<"S","t","a","n","f","o","r","d"," ","U","n","i","v","e","r","s","i","t","y">>

sSchoolType == <<"s","c","h","o","o","l">>

sWorkType == <<"w","o","r","k">>

sVip == <<"v","i","p">>

sPal == <<"p","a","l">>

sTinyStartup == <<"T","i","n","y"," ","S","t","a","r","t","u","p">>

sMediumCorp == <<"M","e","d","i","u","m"," ","C","o","r","p">>

sBigCorp == <<"B","i","g"," ","C","o","r","p">>

sMassiveCorp == <<"M","a","s","s","i","v","e"," ","C","o","r","p">>

sBigMail == <<"u","@","b","i","g",".","o","r","g">>

sPerson == <<"P","e","r","s","o","n">>

sSmallPrefix == <<"s","m","a","l","l","_">>

sMedPrefix == <<"m","e","d","_">>

sLargePrefix == <<"l","a","r","g","e","_">>

sHugePrefix == <<"h","u","g","e","_">>

sAcmeInc == <<"A","c","m","e"," ","I","n","c">>

sAcmeIncDot == <<"A","c","m","e"," ","I","n","c",".">>

sAcmeCommaInc == <<"A","c","m","e",","," ","I","n","c",".">>

sBigCorpLower == <<"b","i","g"," ","c","o","r","p">>

sDotPrefix == <<"d","_">>

sGmailPrefix == <<"g","_">>

sBulkPrefix == <<"b","_">>

----------------------------------------------------------------------------
(* Contacts given to the engine *)

\* models.Contact, the fields the engine reads; raw_data.organizations is
\* [kind |-> "missing"] (no such key), [kind |-> "null"], or
\* [kind |-> "list", items |-> <<[type, name], ...>>]
Contact(id, fields) ==
    [id |-> id, name |-> fields.name, email |-> fields.email,
     organization |-> fields.organization,
     previous_organization |-> fields.previous_organization,
     city |-> fields.city, birthday |-> fields.birthday,
     raw_data |-> fields.raw_data, tags |-> fields.tags]

\* the defaults of models.Contact, with raw_data={}
Blank ==
    [name |-> sPerson, email |-> None, organization |-> None,
     previous_organization |-> None, city |-> None, birthday |-> None,
     raw_data |-> [organizations |-> [kind |-> "missing"]], tags |-> <<>>]

RawOrgs(items) == [organizations |-> [kind |-> "list", items |-> items]]

OrgFamily ==
    { [Blank EXCEPT !.organization = Some(sAcme)],
      [Blank EXCEPT !.organization = Some(sAcmePadded)],
      [Blank EXCEPT !.organization = Some(sOther), !.previous_organization = Some(sAcmeLower)],
      [Blank EXCEPT !.organization = Some(sAcme), !.previous_organization = Some(sOther)],
      [Blank EXCEPT !.organization = Some(sAcmeLower), !.previous_organization = Some(sAcme)],
      [Blank EXCEPT !.organization = Some(sBlank), !.previous_organization = Some(<<>>)] }

CityFamily ==
    { [Blank EXCEPT !.city = Some(sRome)],
      [Blank EXCEPT !.city = Some(sRomePadded)],
      [Blank EXCEPT !.city = Some(sOslo), !.previous_organization = Some(sRome)],
      [Blank EXCEPT !.city = Some(sBlank)],
      Blank }

DomainFamily ==
    { [Blank EXCEPT !.email = Some(sMailX1)],
      [Blank EXCEPT !.email = Some(sMailX2)],
      [Blank EXCEPT !.email = Some(sMailGmail1)],
      [Blank EXCEPT !.email = Some(sMailGmail2)],
      [Blank EXCEPT !.email = Some(sMailNoAt)] }

BirthdayFamily ==
    { [Blank EXCEPT !.birthday = Some(sMarch15)],
      [Blank EXCEPT !.birthday = Some(sMarch15Padded)],
      [Blank EXCEPT !.birthday = Some(sJuly20)],
      [Blank EXCEPT !.birthday = Some(<<>>)] }

SchoolFamily ==
    { [Blank EXCEPT !.organization = Some(sMIT)],
      [Blank EXCEPT !.raw_data = RawOrgs(<<[type |-> Some(sSchoolType), name |-> Some(sMitPadded)]>>)],
      [Blank EXCEPT !.organization = Some(sStanfordUniversity),
                    !.raw_data = RawOrgs(<<[type |-> Some(sSchoolType), name |-> Some(sMIT)]>>)],
      [Blank EXCEPT !.raw_data = RawOrgs(<<[type |-> Some(sWorkType), name |-> Some(sMIT)],
                                           [type |-> Some(sSchoolType), name |-> None],
                                           [type |-> None, name |-> Some(sMIT)]>>)],
      [Blank EXCEPT !.raw_data = [organizations |-> [kind |-> "null"]]] }

TagFamily ==
    { [Blank EXCEPT !.tags = <<sVip>>],
      [Blank EXCEPT !.tags = <<sVip, sPal>>],
      [Blank EXCEPT !.tags = <<sPal, sVip>>],
      [Blank EXCEPT !.tags = <<sPal>>] }

MixedFamily ==
    { [Blank EXCEPT !.organization = Some(sAcme), !.city = Some(sRome),
                    !.email = Some(sMailX1), !.birthday = Some(sMarch15), !.tags = <<sVip>>],
      [Blank EXCEPT !.organization = Some(sAcmePadded), !.city = Some(sRomePadded),
                    !.email = Some(sMailGmail1), !.birthday = Some(sMarch15)],
      [Blank EXCEPT !.organization = Some(sMIT), !.previous_organization = Some(sAcme),
                    !.email = Some(sMailX2), !.tags = <<sVip>>],
      [Blank EXCEPT !.organization = Some(sOther), !.city = Some(sOslo),
                    !.email = Some(sMailGmail2), !.birthday = Some(sJuly20)] }

\* contacts whose values are whitespace only
BlankFamily ==
    { [Blank EXCEPT !.birthday = Some(sBlank)],
      [Blank EXCEPT !.tags = <<sBlank>>],
      [Blank EXCEPT !.raw_data = RawOrgs(<<[type |-> Some(sSchoolType), name |-> Some(sBlank)]>>)],
      [Blank EXCEPT !.organization = Some(sBlank), !.previous_organization = Some(sBlank),
                    !.city = Some(sBlank), !.email = Some(sMailBlankDomain)] }

Families ==
    {OrgFamily, CityFamily, DomainFamily, BirthdayFamily, SchoolFamily, TagFamily, MixedFamily,
     BlankFamily}

DigitChars == <<"0","1","2","3","4","5","6","7","8","9">>

\* str(n) for n >= 0
RECURSIVE Decimal(_)
Decimal(n) ==
    IF n < 10 THEN <<DigitChars[n + 1]>>
    ELSE Append(Decimal(n \div 10), DigitChars[(n % 10) + 1])

\* a list of at most MaxContacts contacts of one family, with ids "1", "2", ...
SmallInputs ==
    {[i \in DOMAIN fs |-> Contact(Decimal(i), fs[i])] :
        fs \in UNION {[1..n -> F] : n \in 0..MaxContacts, F \in Families}}

\* n contacts with ids prefix0 .. prefix(n-1), alike but for the id
Bulk(prefix, n, fields) == [i \in 1..n |-> Contact(prefix \o Decimal(i - 1), fields)]

\* groups of exactly each size limit, and of one more
ThresholdInputs ==
    {Bulk(sBulkPrefix, n, [Blank EXCEPT !.organization = Some(sBigCorp)]) : n \in {10, 11, 200, 201}}
    \cup {Bulk(sBulkPrefix, n, [Blank EXCEPT !.city = Some(sRome)]) : n \in {50, 51}}
    \cup {Bulk(sBulkPrefix, n, [Blank EXCEPT !.email = Some(sBigMail)]) : n \in {30, 31}}
    \cup {Bulk(sBulkPrefix, n, [Blank EXCEPT !.birthday = Some(sMarch15)]) : n \in {30, 31}}
    \cup {Bulk(sBulkPrefix, n, [Blank EXCEPT !.raw_data =
            RawOrgs(<<[type |-> Some(sSchoolType), name |-> Some(sMIT)]>>)]) : n \in {30, 31}}
    \cup {Bulk(sBulkPrefix, n, [Blank EXCEPT !.tags = <<sVip>>]) : n \in {30, 31}}

\* the same, where the first contact went back to its previous organization
\* (a LinkedIn update to another company and one back)
RepeatedInputs ==
    {[Bulk(sBulkPrefix, n, [Blank EXCEPT !.organization = Some(sBigCorp)])
        EXCEPT ![1].previous_organization = Some(sBigCorpLower)] : n \in {10, 11, 200}}

\* ten contacts of one organization, one of them by its previous
\* organization only and one naming it twice
FormerMemberInput ==
    [Bulk(sBulkPrefix, 9, [Blank EXCEPT !.organization = Some(sBigCorp)])
        EXCEPT ![1].previous_organization = Some(sBigCorpLower)]
    \o Bulk(sDotPrefix, 1, [Blank EXCEPT !.organization = Some(sOther),
                                         !.previous_organization = Some(sBigCorp)])

\* two organizations whose names differ by a period: one hub id for both
SameSlugInput ==
    Bulk(sDotPrefix, 201, [Blank EXCEPT !.organization = Some(sAcmeIncDot)])
    \o Bulk(sBulkPrefix, 11, [Blank EXCEPT !.organization = Some(sAcmeInc)])

\* two hub-sized organizations whose names differ in a period only
TwoNamesOneHubInput ==
    Bulk(sDotPrefix, 11, [Blank EXCEPT !.organization = Some(sAcmeIncDot)])
    \o Bulk(sBulkPrefix, 12, [Blank EXCEPT !.organization = Some(sAcmeInc)])

\* a hub-sized organization whose name holds a space, a comma and a period
PunctuatedHubInput ==
    Bulk(sBulkPrefix, 11, [Blank EXCEPT !.organization = Some(sAcmeCommaInc)])

\* contacts of a consumer domain (few, many) beside two of a company domain
ConsumerDomainInputs ==
    {Bulk(sGmailPrefix, n, [Blank EXCEPT !.email = Some(sMailGmail1)])
        \o Bulk(sBulkPrefix, 2, [Blank EXCEPT !.email = Some(sMailX1)]) : n \in {2, 31}}

\* 31 contacts of one tag beside two of another
OverCapInput ==
    Bulk(sBulkPrefix, 31, [Blank EXCEPT !.tags = <<sVip>>])
    \o Bulk(sDotPrefix, 2, [Blank EXCEPT !.tags = <<sPal>>])

\* contacts of one tag, the first of which carries the tag twice (two
\* memberships whose groups have one name)
RepeatedTagInputs ==
    {[Bulk(sBulkPrefix, n, [Blank EXCEPT !.tags = <<sVip>>])
        EXCEPT ![1].tags = <<sVip, sVip>>] : n \in {2, 3}}

\* 30 contacts of one tag, the first of which carries the tag twice: a
\* membership list of 31 entries
RepeatedTagAtCapInput ==
    [Bulk(sBulkPrefix, 30, [Blank EXCEPT !.tags = <<sVip>>])
        EXCEPT ![1].tags = <<sVip, sVip>>]

\* a contact whose organization is a name of the well-known list beside one
\* whose raw_data lists a school of that name, or whose organization is the
\* same name in lower case
WellKnownSchoolInputs ==
    UNION {{ <<Contact(<<"1">>, [Blank EXCEPT !.organization = Some(n)]),
               Contact(<<"2">>, [Blank EXCEPT !.raw_data =
                   RawOrgs(<<[type |-> Some(sSchoolType), name |-> Some(lower(n) \o <<" ">>)]>>)])>>,
             <<Contact(<<"1">>, [Blank EXCEPT !.organization = Some(n)]),
               Contact(<<"2">>, [Blank EXCEPT !.organization = Some(lower(n))])>> }
           : n \in {sBerkeley, sOxford, sYale}}

\* two contacts whose addresses hold two '@' (a quoted local part), with
\* different domains, and one of them beside a contact of its domain
TwoAtInputs ==
    { <<Contact(<<"1">>, [Blank EXCEPT !.email = Some(sMailTwoAt1)]),
        Contact(<<"2">>, [Blank EXCEPT !.email = Some(sMailTwoAt2)])>>,
      <<Contact(<<"1">>, [Blank EXCEPT !.email = Some(sMailTwoAt1)]),
        Contact(<<"2">>, [Blank EXCEPT !.email = Some(sMailX1)])>> }

\* two contacts of a consumer domain, written in lower and in upper case,
\* beside two of a subdomain of it
SubdomainInput ==
    << Contact(<<"1">>, [Blank EXCEPT !.email = Some(sMailGmail1)]),
       Contact(<<"2">>, [Blank EXCEPT !.email = Some(sMailGmail2)]),
       Contact(<<"3">>, [Blank EXCEPT !.email = Some(sMailSub)]),
       Contact(<<"4">>, [Blank EXCEPT !.email = Some(sMailSub2)]) >>

\* two contacts of a company whose name holds a well-known institution's
\* name inside another word
EmbeddedNameInput ==
    Bulk(sBulkPrefix, 2, [Blank EXCEPT !.organization = Some(sSummit)])

\* all_contacts of test_company_size_relationships
CompanySizeTestInput ==
    Bulk(sSmallPrefix, 5, [Blank EXCEPT !.organization = Some(sTinyStartup)])
    \o Bulk(sMedPrefix, 50, [Blank EXCEPT !.organization = Some(sMediumCorp)])
    \o Bulk(sLargePrefix, 150, [Blank EXCEPT !.organization = Some(sBigCorp)])
    \o Bulk(sHugePrefix, 300, [Blank EXCEPT !.organization = Some(sMassiveCorp)])

\* resource_name.split('/')[-1]
LastPiece(s) ==
    LET cuts == {i \in 1..Len(s) : s[i] = "/"}
    IN  IF cuts = {} THEN s
        ELSE SubSeq(s, (CHOOSE i \in cuts : \A j \in cuts : j <= i) + 1, Len(s))

\* f"{n:02d}" for n >= 0
TwoDigits(n) == IF n < 10 THEN <<"0">> \o Decimal(n) ELSE Decimal(n)

\* ContactsService._parse_contact, the fields of the contact the engine
\* reads. A person is a record of the People API: resourceName, names
\* (displayName), emailAddresses (value), organizations (as in raw_data:
\* missing, null or a list of [type, name], None for a key the entry has
\* not), addresses (city), birthdays (month and day of the date, 0 for none)
\* and memberships (the contactGroupResourceName of each). groups_map maps
\* the resource names of the user's contact groups to their names. The
\* result is None (no id, no display name) or the contact; raw_data is the
\* person, of which the engine reads the organizations.
_parse_contact(person, groups_map) ==
    LET resource_name == person.resourceName
        contact_id == IF resource_name # <<>> THEN LastPiece(resource_name) ELSE <<>>
        names == person.names
        display_name == IF names # <<>> THEN names[1].displayName ELSE <<>>
        emails == person.emailAddresses
        organizations == person.organizations
        addresses == person.addresses
        birthdays == person.birthdays
        member == SelectSeq(person.memberships,
                            LAMBDA g : g # <<>> /\ g \in DOMAIN groups_map)
    IN  IF contact_id = <<>> \/ display_name = <<>> THEN None
        ELSE Some(
          [id |-> contact_id,
           name |-> display_name,
           email |-> IF emails # <<>> THEN Some(emails[1].value) ELSE None,
           organization |->
               IF organizations.kind = "list" /\ organizations.items # <<>>
               THEN (IF organizations.items[1].name = None THEN Some(<<>>)
                     ELSE organizations.items[1].name)
               ELSE None,
           previous_organization |-> None,
           city |-> IF addresses # <<>> /\ addresses[1].city # <<>>
                    THEN Some(addresses[1].city) ELSE None,
           birthday |-> IF birthdays # <<>> /\ birthdays[1].month # 0 /\ birthdays[1].day # 0
                        THEN Some(TwoDigits(birthdays[1].month) \o <<"-">>
                                  \o TwoDigits(birthdays[1].day))
                        ELSE None,
           raw_data |-> [organizations |-> organizations],
           tags |-> IF DOMAIN groups_map # {}
                    THEN [n \in DOMAIN member |-> groups_map[member[n]]]
                    ELSE <<>>])

sGroup0 == <<"c","o","n","t","a","c","t","G","r","o","u","p","s","/","g","0">>

sPeoplePrefix == <<"p","e","o","p","l","e","/">>

\* groups_map of sync_contacts: no group (none, or the request for them
\* failed), or the one user group 'vip'
EmptyGroupsMap == [g \in {} |-> <<>>]

VipGroupsMap == [g \in {sGroup0} |-> sVip]

\* a person without names, addresses, ...
NoPerson ==
    [resourceName |-> <<>>, names |-> <<>>, emailAddresses |-> <<>>,
     organizations |-> [kind |-> "missing"], addresses |-> <<>>, birthdays |-> <<>>,
     memberships |-> <<>>]

\* two people who share an email domain and a contact group, one at Acme in
\* Rome, one at MIT
ReusePeople ==
    { [NoPerson EXCEPT
          !.names = <<[displayName |-> sPerson]>>,
          !.emailAddresses = <<[value |-> sMailX1]>>,
          !.organizations = [kind |-> "list", items |-> <<[type |-> None, name |-> Some(sAcme)]>>],
          !.addresses = <<[city |-> sRome]>>,
          !.birthdays = <<[month |-> 3, day |-> 15]>>,
          !.memberships = <<sGroup0>>],
      [NoPerson EXCEPT
          !.names = <<[displayName |-> sPerson]>>,
          !.emailAddresses = <<[value |-> sMailX2]>>,
          !.organizations = [kind |-> "list", items |-> <<[type |-> None, name |-> Some(sMIT)]>>],
          !.memberships = <<sGroup0>>] }

\* the people of a page: person i has the resource name people/i
Page(ps) == [i \in DOMAIN ps |-> [ps[i] EXCEPT !.resourceName = sPeoplePrefix \o Decimal(i)]]

\* contacts.append(contact) for every person _parse_contact accepts
ParsedContacts(page, groups_map) ==
    LET parsed == [i \in DOMAIN page |-> _parse_contact(page[i], groups_map)]
    IN  FlattenRange(parsed, 1, Len(parsed))

\* the lists of successive requests served by one engine: the contacts of at
\* most MaxContacts people, as sync_contacts hands them to
\* _infer_relationships
ReuseInputs ==
    {ParsedContacts(Page(ps), VipGroupsMap) :
        ps \in UNION {[1..n -> ReusePeople] : n \in 0..MaxContacts}}

\* lists of two or more contacts in which one record has an empty id or an
\* empty name
MalformedInputs ==
    UNION {{[cs EXCEPT ![k].id = <<>>], [cs EXCEPT ![k].name = <<>>]} :
            k \in 1..2, cs \in {x \in ReuseInputs : Len(x) >= 2}}

Inputs ==
    SmallInputs \cup ThresholdInputs \cup RepeatedInputs \cup MalformedInputs
    \cup ConsumerDomainInputs \cup RepeatedTagInputs \cup WellKnownSchoolInputs
    \cup TwoAtInputs
    \cup {SameSlugInput, OverCapInput, CompanySizeTestInput, FormerMemberInput,
          SubdomainInput, EmbeddedNameInput, PunctuatedHubInput,
          TwoNamesOneHubInput, RepeatedTagAtCapInput}

----------------------------------------------------------------------------
(* The engine instance and its calls *)

DigitSet == Range(DigitChars)

DigitValue(ch) == (CHOOSE d \in DOMAIN DigitChars : DigitChars[d] = ch) - 1

\* the characters int() passes over at both ends of its argument: those of
\* str.strip() but for the separators U+001C..U+001F
IntWhitespace ==
    { "\t", "\n", "", "\f", "\r", " ", "", " " }

ValueError == "ValueError"

\* the number a string of decimal digits denotes
RECURSIVE DigitsValue(_)
DigitsValue(s) ==
    IF Len(s) = 0 THEN 0
    ELSE DigitsValue(SubSeq(s, 1, Len(s) - 1)) * 10 + DigitValue(s[Len(s)])

\* the text of s between the whitespace int() passes over
IntText(s) ==
    LET keep == {i \in 1..Len(s) : s[i] \notin IntWhitespace}
    IN  IF keep = {} THEN <<>>
        ELSE SubSeq(s, CHOOSE i \in keep : \A j \in keep : i <= j,
                       CHOOSE i \in keep : \A j \in keep : j <= i)

\* sys.get_int_max_str_digits(): the digits int() converts at most
MaxStrDigits == 4300

\* int(s) raises ValueError: s is not an optional sign and decimal digits,
\* with single underscores allowed between digits, between whitespace, or it
\* has more than MaxStrDigits digits (leading zeros counted)
IntRaises(s) ==
    LET t == IntText(s)
        body == IF t # <<>> /\ t[1] \in {"+", "-"} THEN Tail(t) ELSE t
        literal ==
            /\ body # <<>>
            /\ \A i \in DOMAIN body :
                  \/ body[i] \in DigitSet
                  \/ /\ body[i] = "_"
                     /\ 1 < i /\ i < Len(body)
                     /\ body[i - 1] \in DigitSet /\ body[i + 1] \in DigitSet
        digits == SelectSeq(body, LAMBDA ch : ch \in DigitSet)
    IN  ~literal \/ Len(digits) > MaxStrDigits

\* int(s) for a str s
ParseInt(s) ==
    LET t == IntText(s)
        value == DigitsValue(SelectSeq(t, LAMBDA ch : ch \in DigitSet))
    IN  IF IntRaises(s) THEN ValueError
        ELSE IF t[1] = "-" THEN 0 - value ELSE value

\* the process environment: each variable unset (None) or set to a string
Environments ==
    { [SMALL_COMPANY_THRESHOLD |-> None, MEDIUM_COMPANY_THRESHOLD |-> None],
      [SMALL_COMPANY_THRESHOLD |-> Some(<<"2">>), MEDIUM_COMPANY_THRESHOLD |-> Some(<<"4","0">>)],
      [SMALL_COMPANY_THRESHOLD |-> Some(<<>>), MEDIUM_COMPANY_THRESHOLD |-> None] }

\* RelationshipInference() raises: int() of a variable that is set does
ConstructorRaises(env) ==
    \/ env.SMALL_COMPANY_THRESHOLD # None /\ IntRaises(env.SMALL_COMPANY_THRESHOLD[1])
    \/ env.MEDIUM_COMPANY_THRESHOLD # None /\ IntRaises(env.MEDIUM_COMPANY_THRESHOLD[1])

\* RelationshipInference.__init__
RelationshipInference(env) ==
    IF ConstructorRaises(env) THEN ValueError
    ELSE [small_company_threshold |->
              IF env.SMALL_COMPANY_THRESHOLD = None THEN 15
              ELSE ParseInt(env.SMALL_COMPANY_THRESHOLD[1]),
          medium_company_threshold |->
              IF env.MEDIUM_COMPANY_THRESHOLD = None THEN 100
              ELSE ParseInt(env.MEDIUM_COMPANY_THRESHOLD[1])]

\* the engines there can be: those whose construction does not raise
Engines == {RelationshipInference(env) : env \in {e \in Environments : ~ConstructorRaises(e)}}

\* a slip: the list is kept on the instance and each call extends it
InitialEdges_Kept(kept) == kept

\* edges = [] at the start of a call; nothing of an earlier call is kept
InitialEdges(kept) == <<>>

\* the statements of infer_all_relationships, by line
Lines == <<18, 21, 22, 23, 24, 25, 26, 29, 30, 31, 32, 33, 34, 36>>

\* past the return statement
Done == Len(Lines) + 1

Invocations == 1..MaxInvocations

\* a slip: edges and the groups are attributes of the instance (self.edges,
\* self.org_groups, ...), one set for all invocations
Frame_OnInstance(p) == 1

\* edges and the six *_groups are locals: each invocation has a frame of its own
Frame(p) == p

\* no group dict yet
NoGroups == [of |-> <<>>, groups |-> <<>>]

\* a frame before its first assignment
NewFrame ==
    [edges |-> <<>>, org_groups |-> NoGroups, city_groups |-> NoGroups,
     domain_groups |-> NoGroups, birthday_groups |-> NoGroups,
     school_groups |-> NoGroups, tag_groups |-> NoGroups]

\* no invocation is in progress
NoRuns ==
    /\ pc = [p \in Invocations |-> Done]
    /\ args = [p \in Invocations |-> <<>>]
    /\ frames = [p \in Invocations |-> NewFrame]
    /\ result = [p \in Invocations |-> <<>>]
    /\ overlap = FALSE

\* an empty database and no sync so far
EmptyDatabase == [contacts |-> {}, edges |-> {}, organizations |-> {}, sync_token |-> None]

NotInferred == [done |-> FALSE, edges |-> <<>>]

NoSyncs ==
    /\ db = EmptyDatabase
    /\ inferred = NotInferred
    /\ sync_outcome = "none"
    /\ syncs = 0
    /\ db_calls = <<>>

Init ==
    /\ contacts \in Inputs
    /\ engine \in Engines
    /\ edges = <<>>
    /\ prev_edges = <<>>
    /\ outcome = "none"
    /\ calls = 0
    /\ NoRuns
    /\ NoSyncs

\* a slip: the call normalizes the organization of the caller's contacts in
\* place before it groups them
InferReturns_InPlace ==
    /\ calls < MaxCalls
    /\ ~InferRaises(contacts)
    /\ contacts' = [i \in DOMAIN contacts |->
                        [contacts[i] EXCEPT !.organization =
                            IF @ = None THEN None ELSE Some(lower(strip(@[1])))]]
    /\ \E ords \in SchoolOrders(contacts) :
          edges' = infer_all_relationships(contacts, ords)
    /\ prev_edges' = edges
    /\ outcome' = "returned"
    /\ calls' = calls + 1
    /\ UNCHANGED <<engine, restVars>>

\* one call engine.infer_all_relationships(contacts) that returns
InferReturns ==
    /\ calls < MaxCalls
    /\ ~InferRaises(contacts)
    /\ \E ords \in SchoolOrders(contacts) :
          edges' = InitialEdges(edges) \o infer_all_relationships(contacts, ords)
    /\ prev_edges' = edges
    /\ outcome' = "returned"
    /\ calls' = calls + 1
    /\ UNCHANGED <<contacts, engine, restVars>>

\* one call that raises out of _group_by_schools: the caller gets no list
InferFails ==
    /\ calls < MaxCalls
    /\ InferRaises(contacts)
    /\ outcome' = "raised"
    /\ calls' = calls + 1
    /\ UNCHANGED <<contacts, engine, edges, prev_edges, restVars>>

\* a fresh RelationshipInference() replaces the engine
NewEngine ==
    /\ calls < MaxCalls
    /\ engine' \in Engines
    /\ UNCHANGED <<contacts, edges, prev_edges, outcome, calls, restVars>>

Next == InferReturns \/ InferFails \/ NewEngine

Spec == Init /\ [][Next]_vars

----------------------------------------------------------------------------
(* One engine serving successive requests, each with its own contact list *)

ReuseInit ==
    /\ contacts \in ReuseInputs
    /\ engine \in Engines
    /\ edges = <<>>
    /\ prev_edges = <<>>
    /\ outcome = "none"
    /\ calls = 0
    /\ NoRuns
    /\ NoSyncs

\* the caller (ContactsService, one per process) takes up the next request:
\* another contact list for the same self.relationship_inference
NextBatch ==
    /\ calls < MaxCalls
    /\ outcome = "returned"
    /\ contacts' \in ReuseInputs \ {contacts}
    /\ outcome' = "none"
    /\ UNCHANGED <<engine, edges, prev_edges, calls, restVars>>

ReuseNext == InferReturns \/ NextBatch \/ NewEngine

ReuseSpec == ReuseInit /\ [][ReuseNext]_vars

----------------------------------------------------------------------------
(* Invocations of infer_all_relationships on one engine at the same time,  *)
(* statement by statement                                                  *)

\* the contact lists of the concurrent requests: two contacts each
ConcurrentInputs == {cs \in ReuseInputs : Len(cs) = 2}

ConcurrentInit ==
    /\ contacts = <<>>
    /\ engine = RelationshipInference([SMALL_COMPANY_THRESHOLD |-> None,
                                       MEDIUM_COMPANY_THRESHOLD |-> None])
    /\ edges = <<>>
    /\ prev_edges = <<>>
    /\ outcome = "none"
    /\ calls = 0
    /\ pc = [p \in Invocations |-> 1]
    /\ args \in [Invocations -> ConcurrentInputs]
    /\ NoSyncs
    /\ frames = [p \in Invocations |-> NewFrame]
    /\ result = [p \in Invocations |-> <<>>]
    /\ overlap = FALSE

\* the frame of invocation p after its statement at Lines[pc[p]]
Statement(p, fr, ords) ==
    LET cs == args[p]
        line == Lines[pc[p]]
        made(g) == [of |-> cs, groups |-> g]
    IN  CASE line = 18 -> [fr EXCEPT !.edges = <<>>]
          [] line = 21 -> [fr EXCEPT !.org_groups = made(_group_by_attribute(cs, "organization"))]
          [] line = 22 -> [fr EXCEPT !.city_groups = made(_group_by_attribute(cs, "city"))]
          [] line = 23 -> [fr EXCEPT !.domain_groups = made(_group_by_email_domain(cs))]
          [] line = 24 -> [fr EXCEPT !.birthday_groups = made(_group_by_birthday(cs))]
          [] line = 25 -> [fr EXCEPT !.school_groups = made(_group_by_schools(cs, ords))]
          [] line = 26 -> [fr EXCEPT !.tag_groups = made(_group_by_tags(cs))]
          [] line = 29 -> [fr EXCEPT !.edges = @ \o
                _create_company_relationships(fr.org_groups.of, fr.org_groups.groups)]
          [] line = 30 -> [fr EXCEPT !.edges = @ \o
                _create_location_relationships(fr.city_groups.of, fr.city_groups.groups)]
          [] line = 31 -> [fr EXCEPT !.edges = @ \o
                _create_edges_from_groups(fr.domain_groups.of, fr.domain_groups.groups,
                                          "WORKS_WITH", 7)]
          [] line = 32 -> [fr EXCEPT !.edges = @ \o
                _create_edges_from_groups(fr.birthday_groups.of, fr.birthday_groups.groups,
                                          "SHARES_BIRTHDAY", 3)]
          [] line = 33 -> [fr EXCEPT !.edges = @ \o
                _create_edges_from_groups(fr.school_groups.of, fr.school_groups.groups,
                                          "ALUMNI_OF", 6)]
          [] line = 34 -> [fr EXCEPT !.edges = @ \o
                _create_edges_from_groups(fr.tag_groups.of, fr.tag_groups.groups,
                                          "SHARED_TAG", 6)]
          [] line = 36 -> fr

\* invocation p executes its next statement; the return statement hands
\* the list of its frame to the caller
Step(p) ==
    /\ pc[p] < Done
    /\ \E ords \in SchoolOrders(args[p]) :
          frames' = [frames EXCEPT ![Frame(p)] = Statement(p, @, ords)]
    /\ result' = IF Lines[pc[p]] = 36
                 THEN [result EXCEPT ![p] = frames[Frame(p)].edges]
                 ELSE result
    /\ pc' = [pc EXCEPT ![p] = @ + 1]
    /\ overlap' = (overlap \/ \E q \in Invocations \ {p} : 1 < pc[q] /\ pc[q] < Done)
    /\ UNCHANGED <<args, callVars, syncVars>>

ConcurrentNext == \E p \in Invocations : Step(p)

ConcurrentSpec == ConcurrentInit /\ [][ConcurrentNext]_vars

----------------------------------------------------------------------------
(* GraphDatabase: the operations the services call *)

ContactIds(d) == {c.id : c \in d.contacts}

\* GraphDatabase._contact_to_dict reads contact.last_google_sync (line 481),
\* contact.latitude and contact.longitude; models.Contact has no such fields,
\* so the method raises AttributeError for every contact
_contact_to_dict(contact) == "AttributeError"

\* upsert_contact: MATCH (c:Contact {id: $id}) RETURN c, then
\* MERGE (c:Contact {id: $id}) SET ... with **self._contact_to_dict(contact),
\* the arguments being built before the query is sent: the AttributeError of
\* _contact_to_dict ends the method and nothing is written
upsert_contact(d, contact) ==
    IF _contact_to_dict(contact) = "AttributeError" THEN d
    ELSE [d EXCEPT !.contacts = {c \in @ : c.id # contact.id} \cup {contact}]

\* MATCH ()-[r]-() WHERE r.relationship_type IS NOT NULL DELETE r
clear_all_edges(d) == [d EXCEPT !.edges = {}]

IsHubEdge(e) ==
    /\ Len(e.target_id) >= 4
    /\ SubSeq(e.target_id, 1, 4) = <<"o","r","g","_">>
    /\ "is_hub_connection" \in DOMAIN e.metadata
    /\ e.metadata.is_hub_connection

\* A relationship the database holds: the Contact node it starts from, the
\* node it ends in (a Contact or an Organization, each with its id), its
\* type in the graph (label), the properties add_edge sets on it, and the
\* element id the database gives it when it is created (element_id, 0 while
\* the relationship is not stored).
Relationship(e, target_label, label) ==
    [element_id |-> 0,
     source_id |-> e.source_id, target_label |-> target_label,
     target_id |-> e.target_id, label |-> label,
     relationship_type |-> e.relationship_type, strength |-> e.strength,
     metadata |-> e.metadata]

\* the relationship add_edge merges for an edge: for a hub edge
\* (source)-[r:WORKS_AT]->(target:Organization) whatever the edge's
\* relationship_type, for any other edge (source)-[r:{rel_type}]->
\* (target:Contact). The relationship types of the model are names of capital
\* letters and underscores, which the statement text takes as they are.
MergedRelationship(e) ==
    IF IsHubEdge(e) THEN Relationship(e, "Organization", "WORKS_AT")
    ELSE Relationship(e, "Contact", e.relationship_type)

\* the relationship MERGE (source)-[r:LABEL]->(target) finds: same source
\* node, same target node, same type in the graph
SameRelationship(r, q) ==
    /\ r.source_id = q.source_id
    /\ r.target_label = q.target_label
    /\ r.target_id = q.target_id
    /\ r.label = q.label

\* elementId(r) of a relationship MERGE creates: an id of the database's
\* choosing that no stored relationship has; written here as a number, the
\* least one free
NewElementId(d) ==
    CHOOSE n \in 1..(Cardinality(d.edges) + 1) :
        /\ \A q \in d.edges : q.element_id # n
        /\ \A m \in 1..(n - 1) : \E q \in d.edges : q.element_id = m

\* a hub edge creates the Organization node and is stored when its source
\* contact exists; any other edge is stored when both contacts exist; SET
\* overwrites the properties of the relationship MERGE found (at most one:
\* MERGE creates a relationship only where it finds none), which keeps its
\* element id
add_edge(d, e) ==
    LET withOrg == IF IsHubEdge(e)
                   THEN [d EXCEPT !.organizations = @ \cup {e.target_id}]
                   ELSE d
        matched == IF IsHubEdge(e)
                   THEN e.source_id \in ContactIds(d)
                   ELSE {e.source_id, e.target_id} \subseteq ContactIds(d)
        merged == MergedRelationship(e)
        found == {q \in d.edges : SameRelationship(merged, q)}
        element_id == IF found # {} THEN (CHOOSE q \in found : TRUE).element_id
                      ELSE NewElementId(d)
    IN  IF matched
        THEN [withOrg EXCEPT !.edges = (@ \ found)
                                        \cup {[merged EXCEPT !.element_id = element_id]}]
        ELSE withOrg

\* every order in which the rows of a query can come (it has no ORDER BY)
RowOrders(rs) == {seq \in [1..Cardinality(rs) -> rs] : Range(seq) = rs}

\* the ContactEdge get_edges builds of a row: id = elementId(r), the ids of
\* the two nodes, r.relationship_type (for a relationship to an organization
\* `or "WORKS_AT"`), r.strength, r.metadata
EdgeOfRow(r) ==
    [ContactEdge(r.source_id, r.target_id,
                 IF r.target_label = "Organization" /\ r.relationship_type = ""
                 THEN "WORKS_AT" ELSE r.relationship_type,
                 r.strength, r.metadata)
        EXCEPT !.id = Some(r.element_id)]

\* get_edges: the relationships between two contacts that have a
\* relationship_type, then those from a contact to an organization; the
\* lists it can return, one for each order of the rows of the two queries
get_edges(d) ==
    {[n \in DOMAIN rows |-> EdgeOfRow(rows[n])] :
        rows \in {a \o b : a \in RowOrders({r \in d.edges : r.target_label = "Contact"}),
                            b \in RowOrders({r \in d.edges : r.target_label = "Organization"})}}

set_sync_token(d, token) == [d EXCEPT !.sync_token = Some(token)]

\* MATCH (c:Contact {id: $contact_id}) SET c.tags = coalesce(c.tags, []) +
\* CASE WHEN $tag IN coalesce(c.tags, []) THEN [] ELSE [$tag] END
add_contact_tag(d, contact_id, tag) ==
    [d EXCEPT !.contacts =
        {IF c.id = contact_id /\ tag \notin Range(c.tags)
         THEN [c EXCEPT !.tags = Append(@, tag)] ELSE c : c \in @}]

\* MATCH (c:Contact {id: $contact_id})
\* SET c.tags = [t IN coalesce(c.tags, []) WHERE t <> $tag]
remove_contact_tag(d, contact_id, tag) ==
    [d EXCEPT !.contacts =
        {IF c.id = contact_id
         THEN [c EXCEPT !.tags = SelectSeq(@, LAMBDA t : t # tag)] ELSE c : c \in @}]

----------------------------------------------------------------------------
(* ContactsService and LinkedInService: the syncs *)

\* Every method of GraphDatabase is a coroutine function and the services
\* call them without await: the call makes a coroutine object that is never
\* run, so the database stays as it was before the call (d), whatever the
\* method would have done (effect).
NeverAwaited(d, effect) == d

\* for person in connections: self.db.upsert_contact(contact)
UpsertAll(d, cs) ==
    LET RECURSIVE upto(_)
        upto(n) == IF n = 0 THEN d
                   ELSE NeverAwaited(upto(n - 1), upsert_contact(upto(n - 1), cs[n]))
    IN  upto(Len(cs))

\* for edge in edges: self.db.add_edge(edge)
AddAll(d, es) ==
    LET RECURSIVE upto(_)
        upto(n) == IF n = 0 THEN d
                   ELSE NeverAwaited(upto(n - 1), add_edge(upto(n - 1), es[n]))
    IN  upto(Len(es))

\* what the database holds once add_edge has run for each edge of a list
StoreAll(d, es) ==
    LET RECURSIVE upto(_)
        upto(n) == IF n = 0 THEN d ELSE add_edge(upto(n - 1), es[n])
    IN  upto(Len(es))

\* ContactsService._infer_relationships(contacts) on the database d: the
\* edges are cleared, then the engine is called, then each edge is added; an
\* exception of the engine ends it after the clearing
_infer_relationships(d, cs, ords) ==
    LET cleared == NeverAwaited(d, clear_all_edges(d))
    IN  IF InferRaises(cs)
        THEN [db |-> cleared, inferred |-> NotInferred,
              log |-> <<"clear_all_edges">>]
        ELSE LET es == infer_all_relationships(cs, ords)
             IN  [db |-> AddAll(cleared, es), inferred |-> [done |-> TRUE, edges |-> es],
                  log |-> <<"clear_all_edges", "infer_all_relationships">>
                          \o [n \in DOMAIN es |-> "add_edge"]]

\* the contacts a sync fetches or the database holds: at most two, with ids
\* "1", "2"
SyncInputs == {cs \in ReuseInputs : Len(cs) <= 2}

\* the people Google answers with: at most two, any of them one of the two
\* people above, a person whose organizations entry is null, or a person
\* without a name
FetchedPeople ==
    ReusePeople
    \cup { [NoPerson EXCEPT !.names = <<[displayName |-> sPerson]>>,
                            !.organizations = [kind |-> "null"]],
           [NoPerson EXCEPT !.emailAddresses = <<[value |-> sMailX1]>>] }

FetchedPages == {Page(ps) : ps \in UNION {[1..n -> FetchedPeople] : n \in 0..2}}

\* the ids and tags the tag requests name
TagRequestIds == {<<"1">>, <<"3">>}

TagRequestTags == {sVip, sPal}

sNextSyncToken == <<"t","o","k">>

\* The database outlives the process: at start it holds what earlier
\* deployments stored, here the contacts of one list and the edges inferred
\* from a list of contacts with these ids.
SyncInit ==
    /\ contacts = <<>>
    /\ engine = RelationshipInference([SMALL_COMPANY_THRESHOLD |-> None,
                                       MEDIUM_COMPANY_THRESHOLD |-> None])
    /\ edges = <<>>
    /\ prev_edges = <<>>
    /\ outcome = "none"
    /\ calls = 0
    /\ NoRuns
    /\ \E cs \in SyncInputs :
          \E ds \in {x \in SyncInputs : Len(x) <= Len(cs)} :
              \E ords \in SchoolOrders(ds) :
                  db = StoreAll([EmptyDatabase EXCEPT !.contacts = Range(cs)],
                                infer_all_relationships(ds, ords))
    /\ inferred = NotInferred
    /\ sync_outcome = "none"
    /\ syncs = 0
    /\ db_calls = <<>>

\* ContactsService.sync_contacts: the contact groups are fetched (groups_map,
\* empty when the request fails), the people of the pages fetched before the
\* loop ended (page) are parsed, those _parse_contact accepts (got) are
\* upserted and collected;
\* when the last page came (not failed) the new sync token is set;
\* _infer_relationships runs on the collected contacts; then
\* len(self.db.get_contacts()) is taken of a coroutine object, a TypeError.
\* The request carries a sync token whenever get_sync_token() is truthy,
\* which a coroutine object is; what Google answers is the choice of got.
GoogleSync ==
    /\ syncs < MaxSyncs
    /\ \E page \in FetchedPages, groups_map \in {EmptyGroupsMap, VipGroupsMap}, failed \in BOOLEAN :
          \E ords \in SchoolOrders(ParsedContacts(page, groups_map)) :
              LET got == ParsedContacts(page, groups_map)
                  upserted == UpsertAll(db, got)
                  tokened == IF failed THEN upserted
                             ELSE NeverAwaited(upserted, set_sync_token(upserted, sNextSyncToken))
                  run == _infer_relationships(tokened, got, ords)
              IN  /\ db' = run.db
                  /\ inferred' = run.inferred
                  /\ db_calls' = <<"get_sync_token">>
                                  \o [n \in DOMAIN got |-> "upsert_contact"]
                                  \o (IF failed THEN <<>> ELSE <<"set_sync_token">>)
                                  \o run.log
                                  \o (IF run.inferred.done THEN <<"get_contacts">> ELSE <<>>)
                  /\ sync_outcome' = IF run.inferred.done
                                     THEN "TypeError at contacts_service.py:84"
                                     ELSE "TypeError at relationship_inference.py:226"
    /\ syncs' = syncs + 1
    /\ UNCHANGED <<callVars, runVars>>

\* LinkedInService.sync_linkedin_contacts: all_contacts = self.db.get_contacts()
\* is a coroutine object and the loop over it a TypeError, before any
\* connection is matched and before _infer_relationships
LinkedInSync ==
    /\ syncs < MaxSyncs
    /\ sync_outcome' = "TypeError at linkedin_service.py:107"
    /\ db_calls' = <<"get_contacts">>
    /\ syncs' = syncs + 1
    /\ inferred' = NotInferred
    /\ UNCHANGED <<db, callVars, runVars>>

\* POST /api/contacts/{contact_id}/tags (main.py): await db.add_contact_tag
AddContactTag ==
    /\ \E contact_id \in TagRequestIds, tag \in TagRequestTags :
          db' = add_contact_tag(db, contact_id, tag)
    /\ UNCHANGED <<inferred, sync_outcome, syncs, db_calls, callVars, runVars>>

\* DELETE /api/contacts/{contact_id}/tags/{tag} (main.py): await
\* db.remove_contact_tag
RemoveContactTag ==
    /\ \E contact_id \in TagRequestIds, tag \in TagRequestTags :
          db' = remove_contact_tag(db, contact_id, tag)
    /\ UNCHANGED <<inferred, sync_outcome, syncs, db_calls, callVars, runVars>>

SyncNext == GoogleSync \/ LinkedInSync \/ AddContactTag \/ RemoveContactTag

SyncSpec == SyncInit /\ [][SyncNext]_vars

----------------------------------------------------------------------------
(* LinkedInService: the update of a matched contact *)

sBeta == <<"B","e","t","a">>

sAcmeTrailing == <<"a","c","m","e"," ">>

\* the "Company" and "Email Address" columns of a LinkedIn connection
LinkedInCompanies == {<<>>, sAcme, sAcmeTrailing, sBeta}

LinkedInEmails == {<<>>, sMailX1}

LinkedInConnections ==
    {[Company |-> co, EmailAddress |-> em] : co \in LinkedInCompanies, em \in LinkedInEmails}

\* LinkedInService._update_contact_with_linkedin_data, the fields of the
\* contact the engine reads: the organization becomes the LinkedIn company
\* when that differs from it up to case and whitespace, the organization it
\* replaces is kept as previous_organization unless one is kept already, and
\* an email is taken when the contact has none. (linkedin_url,
\* linkedin_company, linkedin_position, linkedin_connected_date and
\* last_linkedin_sync are set too; no part of the model reads them.)
_update_contact_with_linkedin_data(contact, linkedin_contact) ==
    LET linkedin_org == strip(linkedin_contact.Company)
        linkedin_email == strip(linkedin_contact.EmailAddress)
        has_org == Truthy(contact.organization) /\ strip(contact.organization[1]) # <<>>
        differs == has_org /\ lower(strip(contact.organization[1])) # lower(linkedin_org)
        moved ==
            IF linkedin_org = <<>> THEN contact
            ELSE IF ~has_org THEN [contact EXCEPT !.organization = Some(linkedin_org)]
            ELSE IF differs
                 THEN [contact EXCEPT
                         !.previous_organization =
                             IF ~Truthy(@) THEN contact.organization ELSE @,
                         !.organization = Some(linkedin_org)]
                 ELSE contact
    IN  IF ~Truthy(moved.email) /\ linkedin_email # <<>>
        THEN [moved EXCEPT !.email = Some(linkedin_email)]
        ELSE moved

\* the contacts the database holds when LinkedIn connections are matched:
\* contacts of a Google sync, with or without an organization
MatchedContacts ==
    {[i \in DOMAIN os |-> Contact(Decimal(i), [Blank EXCEPT !.organization = os[i]])] :
        os \in UNION {[1..n -> {None, Some(sAcme), Some(sAcmePadded)}] :
                        n \in 1..(MaxContacts - 1)}}

LinkedInInit ==
    /\ contacts \in MatchedContacts
    /\ engine = RelationshipInference([SMALL_COMPANY_THRESHOLD |-> None,
                                       MEDIUM_COMPANY_THRESHOLD |-> None])
    /\ edges = <<>>
    /\ prev_edges = <<>>
    /\ outcome = "none"
    /\ calls = 0
    /\ NoRuns
    /\ NoSyncs

\* one call of _update_contact_with_linkedin_data for the contact a
\* connection matched; its last statement, self.db.upsert_contact(contact),
\* is not awaited
LinkedInUpdate ==
    /\ \E i \in DOMAIN contacts, linkedin_contact \in LinkedInConnections :
          LET updated == _update_contact_with_linkedin_data(contacts[i], linkedin_contact)
          IN  /\ contacts' = [contacts EXCEPT ![i] = updated]
              /\ db' = NeverAwaited(db, upsert_contact(db, updated))
    /\ UNCHANGED <<engine, edges, prev_edges, outcome, calls, runVars,
                   inferred, sync_outcome, syncs, db_calls>>

LinkedInNext == LinkedInUpdate

LinkedInSpec == LinkedInInit /\ [][LinkedInNext]_vars

----------------------------------------------------------------------------
(* Notions the properties are stated with *)

\* how often e occurs in the list s
Count(s, e) == Cardinality({i \in DOMAIN s : s[i] = e})

\* the lists a and b hold the same elements the same number of times
SameBag(a, b) ==
    /\ Len(a) = Len(b)
    /\ \A e \in Range(a) \cup Range(b) : Count(a, e) = Count(b, e)

Returned == outcome = "returned"

\* the normalized organization names of a contact, current and previous
OrgNames(c) ==
    {lower(strip(v[1])) :
        v \in {x \in {c.organization, c.previous_organization} :
                    Truthy(x) /\ strip(x[1]) # <<>>}}

AllOrgNames == UNION {OrgNames(contacts[i]) : i \in DOMAIN contacts}

\* the members of organization k: the contacts that name it
OrgMembers(k) == {i \in DOMAIN contacts : k \in OrgNames(contacts[i])}

\* the emitted edges of one type that carry organization k
EdgesOfOrg(type, k) ==
    {j \in DOMAIN edges :
        edges[j].relationship_type = type /\ edges[j].metadata.organization = k}

\* edge e joins the contacts a and b, in either direction
Connects(e, a, b) == {e.source_id, e.target_id} = {contacts[a].id, contacts[b].id}

\* the email domain of contact i, <<>> when it has none
DomainOf(i) ==
    IF Truthy(contacts[i].email) THEN _extract_domain(contacts[i].email[1]) ELSE None

\* the emitted edges of one type that join the contacts a and b
EdgesBetween(type, a, b) ==
    {j \in DOMAIN edges :
        edges[j].relationship_type = type /\ Connects(edges[j], a, b)}

\* the families whose groups become pairwise edges under a size cap
PairFamilies == {"city", "domain", "birthday", "school", "tag"}

FamilyType(f) ==
    CASE f = "city" -> "LIVES_IN"
      [] f = "domain" -> "WORKS_WITH"
      [] f = "birthday" -> "SHARES_BIRTHDAY"
      [] f = "school" -> "ALUMNI_OF"
      [] f = "tag" -> "SHARED_TAG"

FamilyCap(f) == IF f = "city" THEN 50 ELSE 30

\* the values of family f that contact i has
ValuesOf(f, i) ==
    CASE f = "city" ->
            IF Truthy(contacts[i].city) /\ strip(contacts[i].city[1]) # <<>>
            THEN {lower(strip(contacts[i].city[1]))} ELSE {}
      [] f = "domain" ->
            IF Truthy(DomainOf(i)) /\ DomainOf(i)[1] \notin consumer_domains
            THEN {DomainOf(i)[1]} ELSE {}
      [] f = "birthday" ->
            IF Truthy(contacts[i].birthday) THEN {contacts[i].birthday[1]} ELSE {}
      [] f = "school" -> _extract_schools(contacts[i])
      [] f = "tag" -> Range(contacts[i].tags)

AllValues(f) == UNION {ValuesOf(f, i) : i \in DOMAIN contacts}

\* the group of value k in family f: the contacts that have it
GroupOf(f, k) == {i \in DOMAIN contacts : k \in ValuesOf(f, i)}

\* the shared value an edge of a pairwise family records
SharedValue(e) ==
    IF e.relationship_type = "LIVES_IN" THEN e.metadata.city
    ELSE e.metadata.shared_attribute

\* the emitted edges of family f for the value k
EdgesOfGroup(f, k) ==
    {j \in DOMAIN edges :
        edges[j].relationship_type = FamilyType(f) /\ SharedValue(edges[j]) = k}

\* no contact of the list names one organization twice (as current and previous)
NoRepeatedOrg ==
    \A i \in DOMAIN contacts :
        Cardinality(OrgNames(contacts[i])) =
            Len(SelectSeq(<<contacts[i].organization, contacts[i].previous_organization>>,
                          LAMBDA x : Truthy(x) /\ strip(x[1]) # <<>>))

----------------------------------------------------------------------------
(* C1 *)

\* C1: a second call of infer_all_relationships on the same contact list, on
\* the same engine or on a fresh one, returns the same multiset of edges
\* (source, target, type, strength, metadata) as the call before it; the
\* order of the list may differ.
C1_SameEdgeMultiset ==
    (calls >= 2 /\ Returned) => SameBag(edges, prev_edges)

\* two calls returned the same edges in different list orders
C1_Witness ==
    /\ calls >= 2
    /\ Returned
    /\ edges # prev_edges
    /\ Len(edges) >= 2

----------------------------------------------------------------------------
(* C2 *)

\* C2: for every organization (normalized name) with n members, 2 <= n <= 10,
\* the call emits exactly n*(n-1)/2 CLOSE_COLLEAGUES edges for it, one per
\* unordered pair of its members, each of strength 0.9, and no WORKS_AT edge.
C2_SmallOrganizationClique ==
    Returned =>
        \A k \in AllOrgNames :
            LET M == OrgMembers(k)
                n == Cardinality(M)
                E == EdgesOfOrg("CLOSE_COLLEAGUES", k)
            IN  (2 <= n /\ n <= 10) =>
                    /\ Cardinality(E) = (n * (n - 1)) \div 2
                    /\ \A j \in E : edges[j].strength = 9
                    /\ \A a, b \in M :
                          a < b => Cardinality({j \in E : Connects(edges[j], a, b)}) = 1
                    /\ EdgesOfOrg("WORKS_AT", k) = {}

----------------------------------------------------------------------------
(* C3 *)

\* C3: for every organization with n members, 11 <= n <= 200, the call emits
\* exactly n WORKS_AT edges for it, one per member, each from the member's
\* contact id to the organization's hub id and of strength 0.7, and no
\* CLOSE_COLLEAGUES edge.
C3_MediumOrganizationHub ==
    Returned =>
        \A k \in AllOrgNames :
            LET M == OrgMembers(k)
                n == Cardinality(M)
                E == EdgesOfOrg("WORKS_AT", k)
            IN  (11 <= n /\ n <= 200) =>
                    /\ Cardinality(E) = n
                    /\ \A j \in E : edges[j].strength = 7 /\ edges[j].target_id = OrgId(k)
                    /\ \A a \in M :
                          Cardinality({j \in E : edges[j].source_id = contacts[a].id}) = 1
                    /\ EdgesOfOrg("CLOSE_COLLEAGUES", k) = {}

----------------------------------------------------------------------------
(* C4 *)

\* C4 as stated: for every organization with more than 200 members the call
\* emits no edge that references it: no CLOSE_COLLEAGUES or WORKS_AT edge
\* carries it in its metadata and no WORKS_AT edge targets its hub id.
C4_LargeOrganizationUnreferenced ==
    Returned =>
        \A k \in AllOrgNames :
            Cardinality(OrgMembers(k)) > 200 =>
                /\ EdgesOfOrg("CLOSE_COLLEAGUES", k) = {}
                /\ EdgesOfOrg("WORKS_AT", k) = {}
                /\ \A j \in DOMAIN edges :
                      edges[j].relationship_type = "WORKS_AT" => edges[j].target_id # OrgId(k)

\* C4 as amended: for every organization with more than 200 members the call
\* emits no CLOSE_COLLEAGUES and no WORKS_AT edge that carries it in its
\* metadata; a WORKS_AT edge that targets its hub id is an edge of another,
\* differently written organization with the same hub id.
C4_LargeOrganizationSkipped ==
    Returned =>
        \A k \in AllOrgNames :
            Cardinality(OrgMembers(k)) > 200 =>
                /\ EdgesOfOrg("CLOSE_COLLEAGUES", k) = {}
                /\ EdgesOfOrg("WORKS_AT", k) = {}
                /\ \A j \in DOMAIN edges :
                      (edges[j].relationship_type = "WORKS_AT" /\ edges[j].target_id = OrgId(k))
                          => /\ edges[j].metadata.organization # k
                             /\ OrgId(edges[j].metadata.organization) = OrgId(k)
                             /\ Cardinality(OrgMembers(edges[j].metadata.organization)) <= 200

\* a call returned edges for a list that holds an organization of more than
\* 200 members
C4_Witness ==
    /\ Returned
    /\ Len(edges) > 0
    /\ \E k \in AllOrgNames : Cardinality(OrgMembers(k)) > 200

----------------------------------------------------------------------------
(* C5 *)

\* C5: in the list one call returns, for every relationship type and every
\* unordered pair of contacts {a, b} at most one edge of that type joins a
\* and b, in either direction, also when a and b share several values of one
\* family (a current and a previous organization, two tags).
C5_OneEdgePerPairAndType ==
    Returned =>
        \A a, b \in DOMAIN contacts :
            a < b =>
                \A j1, j2 \in DOMAIN edges :
                    (/\ Connects(edges[j1], a, b)
                     /\ Connects(edges[j2], a, b)
                     /\ edges[j1].relationship_type = edges[j2].relationship_type)
                        => j1 = j2

----------------------------------------------------------------------------
(* C6 *)

\* C6: no WORKS_WITH edge has a domain of the consumer-provider list as its
\* shared attribute, however many contacts use the domain; two contacts that
\* share such a domain get no WORKS_WITH edge, and two contacts of the same
\* list that share another domain (in a group of at most 30) get one.
C6_NoConsumerDomainEdges ==
    Returned =>
        /\ \A j \in DOMAIN edges :
              edges[j].relationship_type = "WORKS_WITH"
                  => edges[j].metadata.shared_attribute \notin consumer_domains
        /\ \A a, b \in DOMAIN contacts :
              (a < b /\ Truthy(DomainOf(a)) /\ DomainOf(a) = DomainOf(b)) =>
                  IF DomainOf(a)[1] \in consumer_domains
                  THEN EdgesBetween("WORKS_WITH", a, b) = {}
                  ELSE Cardinality({i \in DOMAIN contacts : DomainOf(i) = DomainOf(a)}) <= 30
                          => \E j \in EdgesBetween("WORKS_WITH", a, b) :
                                edges[j].metadata.shared_attribute = DomainOf(a)[1]

\* a call returned for a list in which more than 30 contacts share a
\* consumer domain and two others, who share a company domain, are joined
C6_Witness ==
    /\ Returned
    /\ \E a, b \in DOMAIN contacts :
          /\ a < b
          /\ Truthy(DomainOf(a))
          /\ DomainOf(a) = DomainOf(b)
          /\ DomainOf(a)[1] \in consumer_domains
          /\ Cardinality({i \in DOMAIN contacts : DomainOf(i) = DomainOf(a)}) > 30
    /\ \E j \in DOMAIN edges : edges[j].relationship_type = "WORKS_WITH"

----------------------------------------------------------------------------
(* C7 *)

\* C7: in the city, email-domain, birthday, school and tag families a group
\* of more than the cap (50 for city, 30 for the others) yields no edge, and
\* a group of exactly the cap is not skipped: each pair of it is joined. The
\* members of a group are the contacts that share the value.
C7_GroupSizeCaps ==
    Returned =>
        \A f \in PairFamilies :
            \A k \in AllValues(f) :
                LET M == GroupOf(f, k)
                    E == EdgesOfGroup(f, k)
                IN  /\ Cardinality(M) > FamilyCap(f) => E = {}
                    /\ Cardinality(M) = FamilyCap(f) =>
                          \A a, b \in M :
                              a < b => \E j \in E : Connects(edges[j], a, b)

----------------------------------------------------------------------------
(* C8 *)

\* the strength, in tenths, fixed for each relationship type
TypeStrength ==
    [t \in {"CLOSE_COLLEAGUES", "WORKS_AT", "LIVES_IN", "WORKS_WITH",
            "SHARES_BIRTHDAY", "ALUMNI_OF", "SHARED_TAG"} |->
        CASE t = "CLOSE_COLLEAGUES" -> 9
          [] t = "WORKS_AT" -> 7
          [] t = "LIVES_IN" -> 3
          [] t = "WORKS_WITH" -> 7
          [] t = "SHARES_BIRTHDAY" -> 3
          [] t = "ALUMNI_OF" -> 6
          [] t = "SHARED_TAG" -> 6]

\* C8: every emitted edge has a relationship type of the fixed vocabulary
\* CLOSE_COLLEAGUES, WORKS_AT, LIVES_IN, WORKS_WITH, SHARES_BIRTHDAY,
\* ALUMNI_OF, SHARED_TAG and the strength fixed for that type (0.9, 0.7, 0.3,
\* 0.7, 0.3, 0.6, 0.6), whatever the contacts, the group and the
\* SMALL_COMPANY_THRESHOLD / MEDIUM_COMPANY_THRESHOLD settings.
C8_TypeAndStrengthFixed ==
    \A j \in DOMAIN edges :
        /\ edges[j].relationship_type \in DOMAIN TypeStrength
        /\ edges[j].strength = TypeStrength[edges[j].relationship_type]

\* a call returned WORKS_AT edges for an organization whose size lies above
\* the configured small-company threshold and below the configured
\* medium-company threshold, both set away from their defaults
C8_Witness ==
    /\ Returned
    /\ engine.small_company_threshold # 15
    /\ engine.medium_company_threshold # 100
    /\ \E j \in DOMAIN edges :
          /\ edges[j].relationship_type = "WORKS_AT"
          /\ edges[j].metadata.company_size > engine.small_company_threshold
          /\ edges[j].metadata.company_size < engine.medium_company_threshold

----------------------------------------------------------------------------
(* C9 *)

\* the families C9 names
KeyedFamilies == {"organization", "city", "domain", "birthday", "school"}

\* the attribute values of family f as contact i carries them, not normalized
RawValues(f, i) ==
    LET c == contacts[i]
        given(S) == {v[1] : v \in {x \in S : Truthy(x)}}
    IN  CASE f = "organization" -> given({c.organization, c.previous_organization})
          [] f = "city" -> given({c.city})
          [] f = "domain" ->
                {SplitAt(e)[2] : e \in {x \in given({c.email}) : Contains(x, <<"@">>)}}
          [] f = "birthday" -> given({c.birthday})
          [] f = "school" ->
                {v \in given({c.organization}) : lower(strip(v)) \in _extract_schools(c)}
                \cup (IF c.raw_data.organizations.kind = "list"
                      THEN LET items == c.raw_data.organizations.items
                           IN  {items[n].name[1] :
                                   n \in {m \in DOMAIN items :
                                            /\ items[m].type = Some(sSchoolType)
                                            /\ Truthy(items[m].name)}}
                      ELSE {})

\* the normalized form of a value: trimmed, and but for a birthday lowercased
Normalized(f, v) == IF f = "birthday" THEN strip(v) ELSE lower(strip(v))

\* values that form groups: not blank, and no consumer email domain
Groupable(f, k) == k # <<>> /\ (f = "domain" => k \notin consumer_domains)

\* the contacts whose value of family f is k up to case and whitespace
NormalizedGroup(f, k) ==
    {i \in DOMAIN contacts : \E v \in RawValues(f, i) : Normalized(f, v) = k}

\* the key an edge records
RecordedKey(e) ==
    CASE e.relationship_type \in {"CLOSE_COLLEAGUES", "WORKS_AT"} -> e.metadata.organization
      [] e.relationship_type = "LIVES_IN" -> e.metadata.city
      [] OTHER -> e.metadata.shared_attribute

\* the contact list with every value of the five families in normalized form
NormalizedContacts ==
    LET norm(f, o) == IF o = None THEN None ELSE Some(Normalized(f, o[1]))
        mail(o) == IF Truthy(o) /\ Contains(o[1], <<"@">>)
                   THEN Some(SplitAt(o[1])[1] \o <<"@">>
                             \o Normalized("domain", SplitAt(o[1])[2]))
                   ELSE o
        raw(r) == IF r.organizations.kind = "list"
                  THEN RawOrgs([n \in DOMAIN r.organizations.items |->
                          [r.organizations.items[n] EXCEPT !.name = norm("school", @)]])
                  ELSE r
    IN  [i \in DOMAIN contacts |->
            [contacts[i] EXCEPT !.organization = norm("organization", @),
                                !.previous_organization = norm("organization", @),
                                !.city = norm("city", @),
                                !.birthday = norm("birthday", @),
                                !.email = mail(@),
                                !.raw_data = raw(@)]]

\* the families other than organization: a group within the cap is joined
\* pairwise under its key
KeyedPairFamilies == KeyedFamilies \ {"organization"}

\* C9: for organization, city, email domain, birthday and school, contacts
\* whose values differ only in letter case or surrounding whitespace (for
\* birthday: only in surrounding whitespace) fall into one group and are
\* linked exactly as if their values were identical, under the normalized
\* key: the call returns the edges it returns for the list with every such
\* value in normalized form, two contacts of one city, domain, birthday or
\* school group within the cap are joined by an edge that records the
\* normalized value, and every recorded key is in normalized form.
C9_NormalizedGrouping ==
    Returned =>
        /\ \E ords \in SchoolOrders(NormalizedContacts) :
              SameBag(edges, infer_all_relationships(NormalizedContacts, ords))
        /\ \A f \in KeyedPairFamilies :
              \A a, b \in DOMAIN contacts :
                  a < b =>
                      \A va \in RawValues(f, a), vb \in RawValues(f, b) :
                          LET k == Normalized(f, va)
                          IN  (/\ k = Normalized(f, vb)
                               /\ Groupable(f, k)
                               /\ Cardinality(NormalizedGroup(f, k)) <= FamilyCap(f))
                                  => \E j \in EdgesBetween(FamilyType(f), a, b) :
                                        RecordedKey(edges[j]) = k
        /\ \A j \in DOMAIN edges :
              LET f == CHOOSE g \in KeyedFamilies \cup {"tag"} :
                          IF g = "organization"
                          THEN edges[j].relationship_type \in {"CLOSE_COLLEAGUES", "WORKS_AT"}
                          ELSE edges[j].relationship_type = FamilyType(g)
              IN  f # "tag" => Normalized(f, RecordedKey(edges[j])) = RecordedKey(edges[j])

\* no birthday of the list has surrounding whitespace
BirthdaysTrimmed ==
    \A i \in DOMAIN contacts :
        \A v \in RawValues("birthday", i) : strip(v) = v

----------------------------------------------------------------------------
(* C10 *)

\* the emitted edges of one type whose metadata names the organization k
EdgesNaming(type, k) ==
    {j \in DOMAIN edges :
        /\ edges[j].relationship_type = type
        /\ "organization" \in DOMAIN edges[j].metadata
        /\ edges[j].metadata.organization = k}

\* C10: in a batch of organizations of 5, 50, 150 and 300 members (the list
\* of test_company_size_relationships) the 5-member one yields
\* CLOSE_COLLEAGUES edges all of strength 0.9, the 50-member one at least one
\* COWORKERS edge and COWORKERS edges all of strength 0.7, the 150-member one
\* WORKS_AT edges all of strength 0.4, and the 300-member one no edge.
C10_CompanySizeTest ==
    (Returned /\ contacts = CompanySizeTestInput) =>
        /\ EdgesNaming("CLOSE_COLLEAGUES", lower(sTinyStartup)) # {}
        /\ \A j \in EdgesNaming("CLOSE_COLLEAGUES", lower(sTinyStartup)) :
              edges[j].strength = 9
        /\ EdgesNaming("COWORKERS", lower(sMediumCorp)) # {}
        /\ \A j \in DOMAIN edges :
              edges[j].relationship_type = "COWORKERS" => edges[j].strength = 7
        /\ EdgesNaming("WORKS_AT", lower(sBigCorp)) # {}
        /\ \A j \in EdgesNaming("WORKS_AT", lower(sBigCorp)) : edges[j].strength = 4
        /\ \A j \in DOMAIN edges :
              "organization" \in DOMAIN edges[j].metadata
                  => edges[j].metadata.organization # lower(sMassiveCorp)

----------------------------------------------------------------------------
(* C11 *)

\* C11: in every sequence of calls on one reused engine, each with its own
\* contact list, a call returns what a fresh engine returns for that list
\* alone (nothing of an earlier call is in it), and it leaves the list and
\* the contacts it was given as they were.
C11_NoMemoryBetweenCalls ==
    [][(calls' = calls + 1 /\ outcome' = "returned") =>
          /\ contacts' = contacts
          /\ \E ords \in SchoolOrders(contacts) :
                edges' = infer_all_relationships(contacts, ords)]_vars

\* the second call on one engine returned edges for a list other than the
\* list of the first call, whose result differed
C11_Witness ==
    /\ calls >= 2
    /\ Returned
    /\ Len(edges) > 0
    /\ Len(prev_edges) > 0
    /\ ~SameBag(edges, prev_edges)

----------------------------------------------------------------------------
(* C12 *)

\* C12: when invocations of infer_all_relationships on one engine, each with
\* its own contact list, run at the same time, then under every interleaving
\* of their statements each returns exactly the edges it returns when it
\* runs alone.
C12_NoInterference ==
    \A p \in Invocations :
        pc[p] = Done =>
            \E ords \in SchoolOrders(args[p]) :
                result[p] = infer_all_relationships(args[p], ords)

\* all invocations have returned, their statements were interleaved, and two
\* of them returned different non-empty lists
C12_Witness ==
    /\ overlap
    /\ \A p \in Invocations : pc[p] = Done /\ Len(result[p]) > 0
    /\ \E p, q \in Invocations : result[p] # result[q]

----------------------------------------------------------------------------
(* C13 *)

\* C13: extraction is total: whatever the shape of the contacts (optional
\* fields absent or empty; raw_data with 'organizations' missing, null or
\* holding entries without 'type' or 'name'), no grouping or extraction
\* function raises and infer_all_relationships completes.
C13_ExtractionTotal ==
    calls > 0 => outcome = "returned"

----------------------------------------------------------------------------
(* C14 *)

\* the records without an identifier or without a name
Malformed == {i \in DOMAIN contacts : contacts[i].id = <<>> \/ contacts[i].name = <<>>}

\* the records given, without the malformed ones
WellFormed == SelectSeq(contacts, LAMBDA c : c.id # <<>> /\ c.name # <<>>)

\* C14: a record with an empty id or an empty name is in no group and is
\* endpoint of no edge, and the call is not aborted: it returns the edges it
\* returns for the list without the malformed records.
C14_MalformedRecordSkipped ==
    (calls > 0 /\ Malformed # {}) =>
        /\ Returned
        /\ \A j \in DOMAIN edges :
              \A i \in Malformed :
                  contacts[i].id \notin {edges[j].source_id, edges[j].target_id}
        /\ \E ords \in SchoolOrders(WellFormed) :
              SameBag(edges, infer_all_relationships(WellFormed, ords))

----------------------------------------------------------------------------
(* C15 *)

\* the string s is empty or holds whitespace only
IsBlank(s) == strip(s) = <<>>

\* the values contact i carries for the attribute, as given
ValuesGiven(attr, i) ==
    IF attr = "tag" THEN Range(contacts[i].tags) ELSE RawValues(attr, i)

\* the relationship types that come from the attribute
AttributeTypes(attr) ==
    IF attr = "organization" THEN {"CLOSE_COLLEAGUES", "WORKS_AT"}
    ELSE {FamilyType(attr)}

Attributes == KeyedFamilies \cup {"tag"}

\* a and b have a value of the attribute in common that is not blank
\* (values compared trimmed and, but for birthdays, in lower case; tags as
\* they are)
ShareNonBlank(attr, a, b) ==
    \E va \in ValuesGiven(attr, a), vb \in ValuesGiven(attr, b) :
        /\ ~IsBlank(va)
        /\ IF attr = "tag" THEN va = vb
           ELSE Normalized(attr, va) = Normalized(attr, vb)

\* C15: an empty or whitespace-only value forms no group in any family: no
\* edge records an empty or whitespace-only shared value, and two contacts
\* whose only common value of an attribute (organization, previous
\* organization, city, email domain, birthday, school name of raw_data, tag)
\* is empty or whitespace-only get no edge from that attribute.
C15_BlankValuesFormNoGroup ==
    Returned =>
        /\ \A j \in DOMAIN edges : ~IsBlank(RecordedKey(edges[j]))
        /\ \A attr \in Attributes :
              \A a, b \in DOMAIN contacts :
                  (a < b /\ ~ShareNonBlank(attr, a, b))
                      => \A j \in DOMAIN edges :
                            ~(/\ edges[j].relationship_type \in AttributeTypes(attr)
                              /\ Connects(edges[j], a, b))

\* no birthday, tag or school name of raw_data in the list is whitespace only
NoBlankBirthdayTagSchool ==
    \A i \in DOMAIN contacts :
        \A attr \in {"birthday", "tag", "school"} :
            \A v \in ValuesGiven(attr, i) : v = <<>> \/ ~IsBlank(v)

----------------------------------------------------------------------------
(* C16 *)

\* no contact of the list carries one tag twice
NoRepeatedTag ==
    \A i \in DOMAIN contacts :
        Cardinality(Range(contacts[i].tags)) = Len(contacts[i].tags)

\* C16: in the city, email-domain, birthday, school and tag families every
\* group of g distinct contacts, 2 <= g <= cap (50 for city, 30 otherwise),
\* yields g*(g-1)/2 edges of the family's type that carry the group's key,
\* exactly one per unordered pair of members, each of the type's strength.
C16_PairwiseCliquePerGroup ==
    Returned =>
        \A f \in PairFamilies :
            \A k \in AllValues(f) :
                LET M == GroupOf(f, k)
                    g == Cardinality(M)
                    E == EdgesOfGroup(f, k)
                IN  (2 <= g /\ g <= FamilyCap(f)) =>
                        /\ Cardinality(E) = (g * (g - 1)) \div 2
                        /\ \A j \in E : edges[j].strength = TypeStrength[FamilyType(f)]
                        /\ \A a, b \in M :
                              a < b =>
                                  Cardinality({j \in E : Connects(edges[j], a, b)}) = 1

----------------------------------------------------------------------------
(* C17 *)

\* the names of the well-known institutions
WellKnownInstitutions ==
    { <<"m","i","t">>, <<"s","t","a","n","f","o","r","d">>, <<"h","a","r","v","a","r","d">>,
      <<"c","a","l","t","e","c","h">>, <<"u","c","l","a">>, <<"u","s","c">>,
      <<"b","e","r","k","e","l","e","y">>, <<"o","x","f","o","r","d">>,
      <<"c","a","m","b","r","i","d","g","e">>, <<"y","a","l","e">>,
      <<"p","r","i","n","c","e","t","o","n">>, <<"c","o","l","u","m","b","i","a">>,
      <<"c","o","r","n","e","l","l">> }

\* the organization name v names an institution: it holds an institution
\* keyword or is one of the well-known names, in any letter case
NamesInstitution(v) ==
    \/ \E k \in DOMAIN school_keywords : Contains(lower(v), school_keywords[k])
    \/ lower(strip(v)) \in WellKnownInstitutions

\* the school names of contact i by its two signals, up to letter case and
\* surrounding whitespace: the organization field when it names an
\* institution, and the names of the school-typed organizations of raw_data
SchoolSignals(i) ==
    LET c == contacts[i]
        org == IF Truthy(c.organization) /\ NamesInstitution(c.organization[1])
               THEN {lower(strip(c.organization[1]))} ELSE {}
        raw == IF c.raw_data.organizations.kind = "list"
               THEN LET items == c.raw_data.organizations.items
                    IN  {lower(strip(items[n].name[1])) :
                            n \in {m \in DOMAIN items :
                                     /\ items[m].type = Some(sSchoolType)
                                     /\ Truthy(items[m].name)}}
               ELSE {}
    IN  (org \cup raw) \ {<<>>}

\* C17: the two school signals share one key space: two contacts that have a
\* school name in common up to letter case and surrounding whitespace, each
\* by its organization field naming an institution or by a school-typed
\* organization of raw_data, are joined by exactly one ALUMNI_OF edge under
\* that name, of strength 0.6 (the school's group being within the cap of 30).
C17_SchoolSignalsShareKeys ==
    Returned =>
        \A a, b \in DOMAIN contacts :
            a < b =>
                \A k \in SchoolSignals(a) \cap SchoolSignals(b) :
                    LET M == {i \in DOMAIN contacts : k \in SchoolSignals(i)}
                        E == {j \in DOMAIN edges :
                                /\ edges[j].relationship_type = "ALUMNI_OF"
                                /\ edges[j].metadata.shared_attribute = k
                                /\ Connects(edges[j], a, b)}
                    IN  Cardinality(M) <= 30 =>
                            /\ Cardinality(E) = 1
                            /\ \A j \in E : edges[j].strength = 6

\* no organization field of the list is the name Berkeley or Oxford
NoBerkeleyNoOxford ==
    \A i \in DOMAIN contacts :
        Truthy(contacts[i].organization) =>
            lower(strip(contacts[i].organization[1]))
                \notin {<<"b","e","r","k","e","l","e","y">>, <<"o","x","f","o","r","d">>}

----------------------------------------------------------------------------
(* C20 *)

\* the contact list without any previous organization
WithoutPrevious ==
    [i \in DOMAIN contacts |-> [contacts[i] EXCEPT !.previous_organization = None]]

\* the edges of a list that do not come from the organization family
OtherFamilies(es) ==
    SelectSeq(es, LAMBDA e : e.relationship_type \notin {"CLOSE_COLLEAGUES", "WORKS_AT"})

\* contact i names organization k as its previous organization
FormerlyAt(i, k) ==
    /\ Truthy(contacts[i].previous_organization)
    /\ lower(strip(contacts[i].previous_organization[1])) = k

\* C20: a contact with a non-empty previous organization is a member of the
\* group of that organization, as it is of the group of its current one, under
\* the same size policy: in a group of 2..10 members it is joined to every
\* other member by a CLOSE_COLLEAGUES edge that names the organization, in a
\* group of 11..200 it has a WORKS_AT edge that names it; and the previous
\* organization is consulted for the organization family only: the edges of
\* the other families are those of the list without previous organizations.
C20_PreviousOrganizationMembership ==
    Returned =>
        /\ \A k \in AllOrgNames :
              LET M == OrgMembers(k)
                  n == Cardinality(M)
              IN  \A a \in M :
                      FormerlyAt(a, k) =>
                          /\ (2 <= n /\ n <= 10) =>
                                \A b \in M \ {a} :
                                    \E j \in EdgesOfOrg("CLOSE_COLLEAGUES", k) :
                                        Connects(edges[j], a, b)
                          /\ (11 <= n /\ n <= 200) =>
                                \E j \in EdgesOfOrg("WORKS_AT", k) :
                                    edges[j].source_id = contacts[a].id
        /\ \E ords \in SchoolOrders(WithoutPrevious) :
              SameBag(OtherFamilies(edges),
                      OtherFamilies(infer_all_relationships(WithoutPrevious, ords)))

----------------------------------------------------------------------------
(* C18 *)

\* the contacts the database holds, as a list
StoredContacts ==
    CHOOSE cs \in [1..Cardinality(db.contacts) -> db.contacts] : Range(cs) = db.contacts

\* the edges of a collection by what they join: the two ends and the type
Links(es) ==
    {[ends |-> {es[j].source_id, es[j].target_id}, type |-> es[j].relationship_type] :
        j \in DOMAIN es}

\* the lists of edges the database can be read to hold
StoredEdges == get_edges(db)

\* C18: after any syncs from Google and LinkedIn (a Google sync may fetch
\* only the contacts that changed, and its fetch loop may be cut short by an
\* error) the edges the database holds are those infer_all_relationships
\* returns for all the contacts the database holds.
C18_SyncInfersOverAllContacts ==
    syncs > 0 =>
        \E ords \in SchoolOrders(StoredContacts) :
            \A es \in StoredEdges :
                Links(es) = Links(infer_all_relationships(StoredContacts, ords))

----------------------------------------------------------------------------
(* C19 *)

\* the edges of a list by source, target and type
Triples(es) ==
    {[source_id |-> es[j].source_id, target_id |-> es[j].target_id,
      type |-> es[j].relationship_type] : j \in DOMAIN es}

\* the contacts an edge names exist in the database (the target of a hub
\* edge is the organization the edge brings along)
EndpointsExist(e) ==
    IF IsHubEdge(e) THEN e.source_id \in ContactIds(db)
    ELSE {e.source_id, e.target_id} \subseteq ContactIds(db)

\* C19: when _infer_relationships has completed, the inferred edges (source,
\* target, type) the database holds are exactly those of the list this run
\* produced whose endpoints exist: every edge stored before that is not in
\* the new list is gone, every edge of the new list is there.
C19_PersistIsFullReplace ==
    inferred.done =>
        \A es \in StoredEdges :
            Triples(es) = Triples(SelectSeq(inferred.edges, EndpointsExist))

----------------------------------------------------------------------------
(* C21 *)

\* the part of an address after its (first) '@'
AfterAt(s) ==
    LET at == CHOOSE i \in 1..Len(s) : s[i] = "@" /\ \A j \in 1..(i - 1) : s[j] # "@"
    IN  SubSeq(s, at + 1, Len(s))

\* the email-domain key of contact i: the part of its email after the '@',
\* lower-cased (and trimmed); none without an email or without an '@'
DomainKey(i) ==
    IF Truthy(contacts[i].email) /\ "@" \in Range(contacts[i].email[1])
    THEN Some(lower(strip(AfterAt(contacts[i].email[1]))))
    ELSE None

\* the contact is an end of the edge
Touches(e, i) == contacts[i].id \in {e.source_id, e.target_id}

\* C21: the email-domain key of a contact is the lower-cased part of its
\* email after the '@': every WORKS_WITH edge joins two contacts of that key
\* and records it, two contacts of one key that is no consumer domain (in a
\* group within the cap) are joined, and a contact without an email or
\* without an '@' in it is in no WORKS_WITH edge.
C21_DomainKeyAfterAt ==
    Returned =>
        /\ \A j \in DOMAIN edges :
              edges[j].relationship_type = "WORKS_WITH" =>
                  \A i \in DOMAIN contacts :
                      Touches(edges[j], i) =>
                          DomainKey(i) = Some(edges[j].metadata.shared_attribute)
        /\ \A a, b \in DOMAIN contacts :
              (/\ a < b
               /\ DomainKey(a) # None
               /\ DomainKey(a) = DomainKey(b)
               /\ DomainKey(a)[1] # <<>>
               /\ DomainKey(a)[1] \notin consumer_domains
               /\ Cardinality({i \in DOMAIN contacts : DomainKey(i) = DomainKey(a)}) <= 30)
                  => EdgesBetween("WORKS_WITH", a, b) # {}

\* no email of the list holds more than one '@'
OneAtMost ==
    \A i \in DOMAIN contacts :
        Truthy(contacts[i].email) =>
            Cardinality({n \in DOMAIN contacts[i].email[1] : contacts[i].email[1][n] = "@"}) <= 1

----------------------------------------------------------------------------
(* C22 *)

\* the string s ends with a dot and the string d
SubdomainOf(s, d) ==
    /\ Len(s) > Len(d) + 1
    /\ SubSeq(s, Len(s) - Len(d), Len(s)) = <<".">> \o d

\* C22: the consumer-domain list is matched exactly against the lower-cased
\* domain, not by suffix: a contact whose domain is on the list, in whatever
\* letter case it is written, is in no WORKS_WITH edge, and two contacts that
\* share a subdomain of a listed domain (in a group within the cap) are
\* joined by a WORKS_WITH edge that records the subdomain.
C22_DenylistExactMatch ==
    Returned =>
        /\ \A i \in DOMAIN contacts :
              (DomainKey(i) # None /\ DomainKey(i)[1] \in consumer_domains) =>
                  \A j \in DOMAIN edges :
                      edges[j].relationship_type = "WORKS_WITH" => ~Touches(edges[j], i)
        /\ \A a, b \in DOMAIN contacts :
              (/\ a < b
               /\ DomainKey(a) # None
               /\ DomainKey(a) = DomainKey(b)
               /\ \E d \in consumer_domains : SubdomainOf(DomainKey(a)[1], d)
               /\ Cardinality({i \in DOMAIN contacts : DomainKey(i) = DomainKey(a)}) <= 30)
                  => \E j \in EdgesBetween("WORKS_WITH", a, b) :
                        edges[j].metadata.shared_attribute = DomainKey(a)[1]

\* a call returned for a list with a consumer domain written in upper case
\* and two contacts joined under a subdomain of a consumer domain
C22_Witness ==
    /\ Returned
    /\ \E i \in DOMAIN contacts :
          /\ DomainKey(i) # None
          /\ DomainKey(i)[1] \in consumer_domains
          /\ AfterAt(contacts[i].email[1]) \notin consumer_domains
    /\ \E j \in DOMAIN edges :
          /\ edges[j].relationship_type = "WORKS_WITH"
          /\ \E d \in consumer_domains : SubdomainOf(edges[j].metadata.shared_attribute, d)

----------------------------------------------------------------------------
(* C23 *)

Letters == Range(UpperChars) \cup Range(LowerChars)

IsLetter(ch) == ch \in Letters

\* the string s holds w as a word of its own: not inside a longer word
HoldsWord(s, w) ==
    \E n \in 1..(Len(s) - Len(w) + 1) :
        /\ SubSeq(s, n, n + Len(w) - 1) = w
        /\ n > 1 => ~IsLetter(s[n - 1])
        /\ n + Len(w) <= Len(s) => ~IsLetter(s[n + Len(w)])

\* the organization name holds an institution keyword or matches a
\* well-known institution name, in any letter case
IsInstitutionName(v) ==
    \/ \E k \in DOMAIN school_keywords : Contains(lower(v), school_keywords[k])
    \/ \E w \in WellKnownInstitutions : HoldsWord(lower(v), w)

\* the current organizations of the list, trimmed and lower-cased
CurrentOrgNames ==
    {lower(strip(o[1])) : o \in {contacts[i].organization : i \in DOMAIN contacts} \ {None}}
        \ {<<>>}

\* the contacts whose current organization is k
CurrentlyAt(k) ==
    {i \in DOMAIN contacts :
        contacts[i].organization # None /\ lower(strip(contacts[i].organization[1])) = k}

\* C23: the organization field gives a school key exactly when the name
\* holds an institution keyword or matches a well-known institution name:
\* the contacts that share a current organization which no raw_data lists
\* as a school (2 to 30 of them) are joined by ALUMNI_OF edges under its
\* name if it is such a name, and get no ALUMNI_OF edge under it otherwise;
\* a company whose name merely holds a well-known name inside another word
\* gives no ALUMNI_OF edge.
C23_SchoolKeyFromOrganization ==
    Returned =>
        \A k \in CurrentOrgNames :
            LET M == CurrentlyAt(k)
            IN  (/\ Cardinality(M) >= 2
                 /\ Cardinality(M) <= 30
                 /\ \A i \in DOMAIN contacts : k \notin RawSchoolNames(contacts[i]))
                    => IF IsInstitutionName(k)
                       THEN \A a, b \in M :
                               a < b => \E j \in EdgesOfGroup("school", k) :
                                           Connects(edges[j], a, b)
                       ELSE EdgesOfGroup("school", k) = {}

\* no organization of the list holds a well-known name inside another word
NoEmbeddedName ==
    \A k \in CurrentOrgNames :
        \A w \in WellKnownInstitutions : Contains(k, w) => HoldsWord(k, w)

\* no organization of the list is named Berkeley or Oxford
NoBerkeleyOrOxford ==
    \A k \in CurrentOrgNames :
        /\ ~HoldsWord(k, <<"b","e","r","k","e","l","e","y">>)
        /\ ~HoldsWord(k, <<"o","x","f","o","r","d">>)

----------------------------------------------------------------------------
(* C24 *)

\* the metadata fields an edge of each type carries
MetadataFields(type) ==
    CASE type = "LIVES_IN" -> {"city"}
      [] type = "CLOSE_COLLEAGUES" -> {"organization", "company_size"}
      [] type = "WORKS_AT" -> {"organization", "company_size", "is_hub_connection"}
      [] OTHER -> {"shared_attribute"}

\* the values the emitted edges of family f record
RecordedValues(f) ==
    {SharedValue(edges[j]) :
        j \in {n \in DOMAIN edges : edges[n].relationship_type = FamilyType(f)}}

\* the organizations the emitted company edges record
RecordedOrgs ==
    {edges[j].metadata.organization :
        j \in {n \in DOMAIN edges :
                  edges[n].relationship_type \in {"CLOSE_COLLEAGUES", "WORKS_AT"}}}

\* C24: the metadata of every edge follows the convention of its type and
\* agrees with its group: shared_attribute (city for LIVES_IN) is a key
\* both endpoints have, organization is an organization the contact
\* endpoints name, is_hub_connection is true on WORKS_AT edges, and
\* company_size is the number of contacts that name the organization.
C24_MetadataMatchesGroup ==
    Returned =>
        /\ \A j \in DOMAIN edges :
              /\ DOMAIN edges[j].metadata = MetadataFields(edges[j].relationship_type)
              /\ edges[j].relationship_type = "WORKS_AT"
                    => edges[j].metadata.is_hub_connection = TRUE
        /\ \A f \in PairFamilies : \A k \in RecordedValues(f) :
              LET ids == {contacts[i].id : i \in GroupOf(f, k)}
              IN  \A j \in EdgesOfGroup(f, k) :
                      edges[j].source_id \in ids /\ edges[j].target_id \in ids
        /\ \A k \in RecordedOrgs :
              LET ids == {contacts[i].id : i \in OrgMembers(k)}
                  size == Cardinality(OrgMembers(k))
              IN  \A j \in DOMAIN edges :
                      (/\ edges[j].relationship_type \in {"CLOSE_COLLEAGUES", "WORKS_AT"}
                       /\ edges[j].metadata.organization = k)
                          => /\ edges[j].metadata.company_size = size
                             /\ edges[j].source_id \in ids
                             /\ edges[j].relationship_type = "CLOSE_COLLEAGUES"
                                   => edges[j].target_id \in ids

----------------------------------------------------------------------------
(* C25 *)

\* the name without the characters of the set drop
Without(name, drop) == SelectSeq(name, LAMBDA ch : ch \notin drop)

\* the lower-cased name with spaces, periods and commas stripped
StrippedSlug(name) == Without(lower(name), {" ", ".", ","})

\* the lower-cased name with periods and commas stripped and an underscore
\* in place of every space
UnderscoredSlug(name) ==
    LET kept == Without(lower(name), {".", ","})
    IN  [n \in DOMAIN kept |-> IF kept[n] = " " THEN "_" ELSE kept[n]]

HubEdges == {j \in DOMAIN edges : edges[j].relationship_type = "WORKS_AT"}

\* C25 as stated: the hub id of every WORKS_AT edge is 'org_' followed by
\* the lower-cased organization name with spaces, periods and commas
\* stripped.
C25_HubIdStripsSpaces ==
    \A j \in HubEdges :
        edges[j].target_id = <<"o","r","g","_">> \o StrippedSlug(edges[j].metadata.organization)

\* C25: the hub id of every WORKS_AT edge is 'org_' followed by the
\* lower-cased organization name with periods and commas stripped and every
\* space replaced by an underscore; it depends on the name only, so the
\* WORKS_AT edges of one organization all target one hub id.
C25_HubIdFromName ==
    /\ \A j \in HubEdges :
          edges[j].target_id =
              <<"o","r","g","_">> \o UnderscoredSlug(edges[j].metadata.organization)
    /\ \A i, j \in HubEdges :
          edges[i].metadata.organization = edges[j].metadata.organization
              => edges[i].target_id = edges[j].target_id

\* a returned list with WORKS_AT edges of an organization whose name holds
\* a space, a period and a comma
C25_Witness ==
    /\ Returned
    /\ \E i, j \in HubEdges :
          /\ i # j
          /\ edges[i].metadata.organization = edges[j].metadata.organization
          /\ " " \in Range(edges[i].metadata.organization)
          /\ "." \in Range(edges[i].metadata.organization)
          /\ "," \in Range(edges[i].metadata.organization)

----------------------------------------------------------------------------
(* C26 *)

\* the places of a call in the calls of the last sync
CallsOf(name) == {n \in DOMAIN db_calls : db_calls[n] = name}

\* in the last sync the inference failed: the engine was reached and did
\* not return
InferenceFailed ==
    /\ CallsOf("clear_all_edges") # {}
    /\ CallsOf("infer_all_relationships") = {}

\* C26: in every sync, clear_all_edges is called only after
\* infer_all_relationships has returned, and a sync in which the inference
\* fails leaves the stored edges as they were.
C26_ClearAfterInference ==
    /\ [](\A n \in CallsOf("clear_all_edges") :
             \E m \in CallsOf("infer_all_relationships") : m < n)
    /\ [][InferenceFailed' => db'.edges = db.edges]_vars

----------------------------------------------------------------------------
(* C27 *)

\* no two contacts of the list have one id
DistinctIds == \A a, b \in DOMAIN contacts : contacts[a].id = contacts[b].id => a = b

\* C27: when the ids of the contacts are distinct, no emitted edge joins a
\* contact to itself, whatever the organizations and the tags of the contacts.
C27_NoSelfLoop ==
    (Returned /\ DistinctIds) =>
        \A j \in DOMAIN edges : edges[j].source_id # edges[j].target_id

\* no contact of the list carries one tag twice
NoTagTwice ==
    \A i \in DOMAIN contacts :
        Cardinality(Range(contacts[i].tags)) = Len(contacts[i].tags)

----------------------------------------------------------------------------
(* C28 *)

\* the hub ids the emitted edges target
HubIds == {edges[j].target_id : j \in HubEdges}

\* the WORKS_AT edges that target the hub h
EdgesToHub(h) == {j \in HubEdges : edges[j].target_id = h}

\* C28: for every hub id of a returned list, the WORKS_AT edges that target
\* it carry one organization and one company_size, the company_size is the
\* number of distinct contacts with an edge to the hub, and no contact has
\* two edges to it.
C28_HubCountsConsistent ==
    Returned =>
        \A h \in HubIds :
            LET E == EdgesToHub(h)
                sources == {edges[j].source_id : j \in E}
            IN  /\ \A i, j \in E :
                      /\ edges[i].metadata.organization = edges[j].metadata.organization
                      /\ edges[i].metadata.company_size = edges[j].metadata.company_size
                /\ \A j \in E : edges[j].metadata.company_size = Cardinality(sources)
                /\ Cardinality(E) = Cardinality(sources)

\* no two organizations of the list with different names have one hub id
NoSharedHubId ==
    \A k1, k2 \in AllOrgNames : OrgId(k1) = OrgId(k2) => k1 = k2

----------------------------------------------------------------------------
(* C29 *)

\* contact i is listed more than once in one group of the grouping gs
ListedTwice(gs, i) ==
    \E g \in DOMAIN gs :
        Cardinality({m \in DOMAIN gs[g].members : gs[g].members[m] = i}) > 1

\* C29: after any sequence of updates from LinkedIn, the previous
\* organization of a contact, when it has one, differs from its organization
\* up to letter case and surrounding whitespace, and the organization
\* groups list no contact twice.
C29_PreviousDiffersFromCurrent ==
    /\ \A i \in DOMAIN contacts :
          (contacts[i].previous_organization # None /\ contacts[i].organization # None)
              => lower(strip(contacts[i].previous_organization[1]))
                    # lower(strip(contacts[i].organization[1]))
    /\ \A i \in DOMAIN contacts :
          ~ListedTwice(_group_by_attribute(contacts, "organization"), i)

----------------------------------------------------------------------------
(* C30 *)

\* the contacts whose organization is the name w, in any letter case
NamedExactly(w) ==
    {i \in DOMAIN contacts :
        contacts[i].organization # None /\ lower(contacts[i].organization[1]) = w}

\* C30: every name of the well-known list is recognized: in a list of at
\* most 30 contacts, two contacts whose organization is one of the names, in
\* any letter case, are joined by an ALUMNI_OF edge with that name as
\* shared_attribute.
C30_WellKnownRecognized ==
    (Returned /\ Len(contacts) <= 30) =>
        \A w \in WellKnownInstitutions :
            \A a, b \in NamedExactly(w) :
                a < b => \E j \in EdgesOfGroup("school", w) : Connects(edges[j], a, b)

====
